---- MODULE Spec2Model ----
(***************************************************************************)
(* Model of the type aggregate of intelephense (src/src/typeAggregate.ts): *)
(* the associated-set walk (_getAssociated), the member collection         *)
(* (members, _classMembers, _interfaceMembers, _traitMembers) and the      *)
(* member merge (_mergeMembers).                                           *)
(***************************************************************************)
EXTENDS Integers, Sequences, FiniteSets, TLC

VARIABLES
    store,      \* symbolStore: class-like name -> [kind, associated, children]
    symbol,     \* TypeAggregate._symbol (the name of the root class-like)
    assocCache, \* TypeAggregate._associated: [isSet, list]
    queue,      \* _getAssociated: the local queue of stubs
    call,       \* the arguments of the last call
    result,     \* what the last call did: [status, value]
    symbols,    \* _mergeMembers: parameter symbols
    strategy,   \* _mergeMembers: parameter strategy
    n,          \* _mergeMembers: loop counter (1-based)
    map,        \* _mergeMembers: own properties of the local map
    merged,     \* _mergeMembers: local merged
    pc,         \* position of the running operation
    documents,      \* the ParsedDocument objects made so far
    documentStore,  \* Intelephense.documentStore (a ParsedDocumentStore)
    symbolTables,   \* Intelephense.symbolStore: the symbol tables by URI
    answer,         \* the last call of the Intelephense namespace and its answer
    nodes,          \* SymbolReader: the visits the traversal has still to make
    stack,          \* SymbolReader._stack
    active,         \* SymbolReader._active
    symbolTreeRoot, \* SymbolReader.symbolTreeRoot: the children added so far
    program,        \* SymbolReader: the source read, with its name resolver
    resolver,       \* the TypeResolver, its variable table and the source it visits
    formatter       \* the FormatVisitor and the source it visits

\* the state of the type aggregate
aggVars == <<store, symbol, assocCache, queue, call, result,
             symbols, strategy, n, map, merged, pc>>
\* the state of the document store and of the Intelephense namespace
docVars == <<documents, documentStore, symbolTables, answer>>
\* the state of the symbol reader
readerVars == <<nodes, stack, active, symbolTreeRoot, program>>
\* the state of the visitors of a parse tree
visitorVars == <<readerVars, resolver, formatter>>

vars == <<store, symbol, assocCache, queue, call, result,
          symbols, strategy, n, map, merged, pc,
          documents, documentStore, symbolTables, answer,
          nodes, stack, active, symbolTreeRoot, program, resolver, formatter>>

(***************************************************************************)
(* Bounds of the model.                                                    *)
(***************************************************************************)
\* longest associated list of a declared class-like
MaxAssoc == 2
\* longest children list of the root class-like
MaxChildren == 2
\* longest symbol sequence handed to _mergeMembers on its own
MaxSyms == 3

(***************************************************************************)
(* MemberMergeStrategy (const enum).                                       *)
(***************************************************************************)
None == 0
Override == 1
Documented == 2
Base == 3
Strategies == {None, Override, Documented, Base}

(***************************************************************************)
(* Symbols.  A member is a record                                          *)
(*   [id, name, modifiers, doc, type]                                      *)
(* id stands for the object identity of the PhpSymbol; modifiers is the    *)
(* set of SymbolModifier flags that are set; doc says whether the symbol   *)
(* has documentation (a truthy doc field).                                 *)
(***************************************************************************)
Private == "Private"
Magic == "Magic"

IsPrivate(x) == Private \in x.modifiers
IsMagic(x) == Magic \in x.modifiers

\* Names that an empty object literal {} already answers with an inherited,
\* non-numeric value (Object.prototype.toString, ...).
ObjectPrototypeNames == {"toString"}

\* Member names of the model: two ordinary names and one that coincides
\* with an inherited property of {}.
MemberNames == {"m", "p", "toString"}

RECURSIVE SeqsUpTo(_, _)
\* all sequences over S of length 0..k
SeqsUpTo(S, k) ==
    IF k = 0 THEN {<<>>}
    ELSE LET shorter == SeqsUpTo(S, k - 1)
         IN shorter \cup {Append(q, x) : q \in {r \in shorter : Len(r) = k - 1}, x \in S}

Range(q) == {q[i] : i \in 1..Len(q)}

(***************************************************************************)
(* _mergeMembers (typeAggregate.ts 119-146).                               *)
(***************************************************************************)
\* map[s.name] for the local  let map = {} : an own property answers its
\* index (1-based here), an inherited property of {} answers a value that
\* is neither undefined nor a number (-1), anything else undefined (0).
\* The model keeps the own properties as a function on MemberNames, 0
\* standing for "no own property".
EmptyMap == [k \in MemberNames |-> 0]

MapLookup(m, name) ==
    IF m[name] # 0 THEN m[name]
    ELSE IF name \in ObjectPrototypeNames THEN -1
    ELSE 0

MapSet(m, name, index) ==
    [m EXCEPT ![name] = index]

\* mutant: the "always prefer non magic" disjunct is lost
ShouldReplaceNoMagicRule(kept, s, strat) ==
    \/ (strat = Documented /\ ~kept.doc /\ s.doc)
    \/ strat = Base

\* mutant: Override behaves like Base (last one wins)
ShouldReplaceAlways(kept, s, strat) ==
    TRUE

\* mutant: Base lost its disjunct (behaves like Override)
ShouldReplaceNoBase(kept, s, strat) ==
    \/ (IsMagic(kept) /\ ~IsMagic(s))
    \/ (strat = Documented /\ ~kept.doc /\ s.doc)

\* mutant: Documented replaces whenever the later member is documented
ShouldReplaceDocAlways(kept, s, strat) ==
    \/ (IsMagic(kept) /\ ~IsMagic(s))
    \/ (strat = Documented /\ s.doc)
    \/ strat = Base

\* the else-if condition of the loop body (lines 136-140)
ShouldReplace(kept, s, strat) ==
    \/ (IsMagic(kept) /\ ~IsMagic(s))
    \/ (strat = Documented /\ ~kept.doc /\ s.doc)
    \/ strat = Base

\* One iteration of the for loop (lines 131-142) on the locals
\* st = [map, merged, threw].  merged[index] with an index that is not a
\* number is undefined, and reading .modifiers of it throws a TypeError.
MergeStep(st, s, strat) ==
    LET index == MapLookup(st.map, s.name)
    IN  IF st.threw THEN st
        ELSE IF index = 0
             THEN [map |-> MapSet(st.map, s.name, Len(st.merged) + 1),
                   merged |-> Append(st.merged, s),
                   threw |-> FALSE]
        ELSE IF index = -1
             THEN [st EXCEPT !.threw = TRUE]
        ELSE IF ShouldReplace(st.merged[index], s, strat)
             THEN [st EXCEPT !.merged[index] = s]
        ELSE st

RECURSIVE MergeLoop(_, _, _, _)
MergeLoop(st, syms, i, strat) ==
    IF i > Len(syms) \/ st.threw THEN st
    ELSE MergeLoop(MergeStep(st, syms[i], strat), syms, i + 1, strat)

\* _mergeMembers as a whole: [status, value]
MergeMembers(syms, strat) ==
    IF strat = None THEN [status |-> "returned", value |-> syms]
    ELSE LET st == MergeLoop([map |-> EmptyMap, merged |-> <<>>, threw |-> FALSE],
                             syms, 1, strat)
         IN  IF st.threw THEN [status |-> "TypeError", value |-> <<>>]
             ELSE [status |-> "returned", value |-> st.merged]

(***************************************************************************)
(* _getAssociated (typeAggregate.ts 148-178).                              *)
(***************************************************************************)
\* the class-like names some document declares
TypeNames == {"A", "B", "C"}
\* the names a stub of an associated list can carry: "X" is declared nowhere
StubNames == TypeNames \cup {"X"}

Class == "Class"
Interface == "Interface"
Trait == "Trait"

\* symbolStore.find(name, PhpSymbol.isClassLike).shift(): the first
\* class-like symbol of that name, or undefined (here "")
Find(st, name) ==
    IF name \in DOMAIN st /\ st[name].kind \in {Class, Interface, Trait}
    THEN name ELSE ""

\* this._associated.indexOf(symbol) > -1  (line 167)
AssocVisited(list, sym) ==
    sym \in Range(list)

\* One iteration of the while loop (lines 164-174) on [queue, list].
AssocStep(st, q, list) ==
    LET stub == Head(q)
        sym == Find(st, stub)
    IN  IF sym = "" \/ AssocVisited(list, sym)
        THEN [queue |-> Tail(q), list |-> list]
        ELSE [queue |-> Tail(q) \o st[sym].associated,
              list |-> Append(list, sym)]

RECURSIVE AssocLoop(_, _, _)
AssocLoop(st, q, list) ==
    IF q = <<>> THEN list
    ELSE LET nx == AssocStep(st, q, list)
         IN  AssocLoop(st, nx.queue, nx.list)

\* _getAssociated as a whole: the cached list, or the walk from the
\* root's associated stubs
GetAssociated(st, root, cache) ==
    IF cache.isSet THEN cache.list
    ELSE AssocLoop(st, st[root].associated, <<>>)

(***************************************************************************)
(* members, _classMembers, _interfaceMembers, _traitMembers                *)
(* (typeAggregate.ts 51-117).                                              *)
(*                                                                         *)
(* A predicate is named: "undefined" (no predicate given), "isM" (a        *)
(* caller's predicate: the symbol is named m) or "noPrivate" (the closure  *)
(* of _classMembers).  An evaluation answers "true", "false" or            *)
(* "RangeError" (the call stack overflows).                                *)
(***************************************************************************)
CallerPredicates == {"undefined", "isM"}

CallerPredicate(p, x) ==
    IF p = "isM" THEN (IF x.name = "m" THEN "true" ELSE "false")
    ELSE "true"

\* The closure noPrivate (lines 79-81) called while the parameter variable
\* `predicate`, which it reads at call time, holds pv.  With pv the
\* closure itself, predicate(x) is the same call on the same x again: the
\* recursion ends only by overflowing the stack.
NoPrivate(x, pv) ==
    IF IsPrivate(x) THEN "false"
    ELSE IF pv = "undefined" THEN "true"
    ELSE IF pv = "noPrivate" THEN "RangeError"
    ELSE CallerPredicate(pv, x)

\* p(x), for the function p, while the variable `predicate` holds pv
ApplyPredicate(p, x, pv) ==
    IF p = "noPrivate" THEN NoPrivate(x, pv) ELSE CallerPredicate(p, x)

RECURSIVE FilterFrom(_, _, _, _, _)
FilterFrom(xs, i, p, pv, acc) ==
    IF i > Len(xs) THEN [status |-> "returned", value |-> acc]
    ELSE LET r == ApplyPredicate(p, xs[i], pv)
         IN  IF r = "RangeError" THEN [status |-> "RangeError", value |-> <<>>]
             ELSE FilterFrom(xs, i + 1, p, pv,
                             IF r = "true" THEN Append(acc, xs[i]) ELSE acc)

\* predicate ? s.children.filter(predicate) : s.children
FilterChildren(xs, p, pv) ==
    IF p = "undefined" THEN [status |-> "returned", value |-> xs]
    ELSE FilterFrom(xs, 1, p, pv, <<>>)

RECURSIVE InterfaceLoop(_, _, _, _, _, _)
InterfaceLoop(st, list, i, p, pv, acc) ==
    IF i > Len(list) THEN [status |-> "returned", value |-> acc]
    ELSE LET f == FilterChildren(st[list[i]].children, p, pv)
         IN  IF f.status # "returned" THEN f
             ELSE InterfaceLoop(st, list, i + 1, p, pv, acc \o f.value)

\* _interfaceMembers (lines 102-112): the concatenation of the filtered
\* children; pv is what the caller's variable `predicate` holds
InterfaceMembers(st, list, p, pv) ==
    InterfaceLoop(st, list, 1, p, pv, <<>>)

\* _traitMembers (lines 114-117)
TraitMembers(st, traits, p, pv) ==
    InterfaceMembers(st, traits, p, pv)

\* mutant: the private filter is applied to every class-like of the list,
\* the root included
ClassStepRootFiltered(st, c, s) ==
    IF st[s].kind = Trait
    THEN [c EXCEPT !.traits = Append(@, s), !.predicate = "noPrivate"]
    ELSE LET f == FilterFrom(st[s].children, 1, "noPrivate", c.predicate, <<>>)
         IN  IF f.status # "returned"
             THEN [c EXCEPT !.status = f.status]
             ELSE [c EXCEPT !.members = @ \o f.value, !.predicate = "noPrivate"]

\* One iteration of the for loop of _classMembers (lines 83-92) on
\* c = [members, traits, predicate, status]
ClassStep(st, c, s) ==
    IF st[s].kind = Trait
    THEN [c EXCEPT !.traits = Append(@, s), !.predicate = "noPrivate"]
    ELSE LET f == FilterChildren(st[s].children, c.predicate, c.predicate)
         IN  IF f.status # "returned"
             THEN [c EXCEPT !.status = f.status]
             ELSE [c EXCEPT !.members = @ \o f.value, !.predicate = "noPrivate"]

RECURSIVE ClassLoop(_, _, _, _)
ClassLoop(st, associated, i, c) ==
    IF i > Len(associated) \/ c.status # "returned" THEN c
    ELSE ClassLoop(st, associated, i + 1, ClassStep(st, c, associated[i]))

\* _classMembers (lines 74-100): [status, value]
ClassMembers(st, associated, strat, predicate) ==
    LET c == ClassLoop(st, associated, 1,
                       [members |-> <<>>, traits |-> <<>>,
                        predicate |-> predicate, status |-> "returned"])
        m == MergeMembers(c.members, strat)
        t == TraitMembers(st, c.traits, "noPrivate", "noPrivate")
    IN  IF c.status # "returned" THEN [status |-> c.status, value |-> <<>>]
        ELSE IF m.status # "returned" THEN m
        ELSE IF t.status # "returned" THEN t
        ELSE [status |-> "returned", value |-> m.value \o t.value]

\* members (lines 51-67): [status, value]
MembersOf(st, root, cache, strat, predicate) ==
    LET associated == <<root>> \o GetAssociated(st, root, cache)
    IN  IF st[root].kind = Class
        THEN ClassMembers(st, associated, strat, predicate)
        ELSE IF st[root].kind = Interface
        THEN InterfaceMembers(st, associated, predicate, predicate)
        ELSE IF st[root].kind = Trait
        THEN TraitMembers(st, associated, predicate, predicate)
        ELSE [status |-> "returned", value |-> <<>>]

(***************************************************************************)
(* The inputs of the model.                                                *)
(***************************************************************************)
\* the sequences of SeqsUpTo(S, k) that hold no element twice
DistinctSeqsUpTo(S, k) ==
    {q \in SeqsUpTo(S, k) : \A i, j \in 1..Len(q) : q[i] = q[j] => i = j}

\* the children list of owner made of the shapes of q: the i-th child is
\* the object <<owner, i>>
ChildrenOf(owner, q) ==
    [i \in 1..Len(q) |->
        [id |-> <<owner, i>>, name |-> q[i].name, modifiers |-> q[i].modifiers,
         doc |-> q[i].doc, type |-> q[i].type]]

\* the kinds of the three declared class-likes: a class A (the root of the
\* aggregate), a class B and a trait C
KindOf(name) == IF name = "C" THEN Trait ELSE Class

\* members as _mergeMembers can meet them: any name, magic or not,
\* documented or not
MergeShapes ==
    [name : MemberNames, modifiers : {{}, {Magic}}, doc : BOOLEAN, type : {"int"}]

MergeInputs == {ChildrenOf("A", q) : q \in SeqsUpTo(MergeShapes, MaxSyms)}

\* children of the root: a public and a private member of one name, a
\* private one of another name, and a public one named like an inherited
\* property of {}
RootShapes ==
    {[name |-> "m", modifiers |-> {}, doc |-> FALSE, type |-> "string"],
     [name |-> "m", modifiers |-> {Private}, doc |-> FALSE, type |-> "string"],
     [name |-> "p", modifiers |-> {Private}, doc |-> FALSE, type |-> "string"],
     [name |-> "toString", modifiers |-> {}, doc |-> FALSE, type |-> "string"]}

\* children of the other class-likes: a public or a private m
OtherShapes ==
    {[name |-> "m", modifiers |-> {}, doc |-> FALSE, type |-> "int"],
     [name |-> "m", modifiers |-> {Private}, doc |-> FALSE, type |-> "int"]}

\* stores for the associated-set walk: any graph over the declared names
\* and the undeclared one, no members
GraphStores ==
    {[t \in TypeNames |-> [kind |-> KindOf(t), associated |-> a[t], children |-> <<>>]] :
        a \in [TypeNames -> DistinctSeqsUpTo(StubNames, MaxAssoc)]}

\* stores for members(): the root lists up to MaxAssoc class-likes, the
\* others at most one other than themselves; the root has up to
\* MaxChildren children of different shapes, the others at most one
MemberStores ==
    {[t \in TypeNames |->
        [kind |-> KindOf(t),
         associated |-> IF t = "A" THEN ra ELSE oa[t],
         children |-> IF t = "A" THEN ChildrenOf("A", rc) ELSE ChildrenOf(t, oc[t])]] :
        ra \in DistinctSeqsUpTo(TypeNames, MaxAssoc),
        oa \in {f \in [TypeNames \ {"A"} -> DistinctSeqsUpTo(TypeNames, 1)] :
                        \A o \in TypeNames \ {"A"} : f[o] # <<o>>},
        rc \in DistinctSeqsUpTo(RootShapes, MaxChildren),
        oc \in [TypeNames \ {"A"} -> SeqsUpTo(OtherShapes, 1)]}

NoCall == [strategy |-> None, predicate |-> "undefined"]
NoResult == [status |-> "none", value |-> <<>>]
NoCache == [isSet |-> FALSE, list |-> <<>>]
EmptyStore ==
    [t \in TypeNames |-> [kind |-> KindOf(t), associated |-> <<>>, children |-> <<>>]]

(***************************************************************************)
(* ParsedDocument and ParsedDocumentStore (parsedDocument.ts).             *)
(*                                                                         *)
(* A text is a sequence of declarations, each written "c" (a class).       *)
(* A ParsedDocument object is a record                                     *)
(*   [uri, text, tree, timer, bubble, pending]                             *)
(* timer says whether the debounce holds a running timer; bubble says      *)
(* whether the _bubbleEvent of the document store is subscribed to the     *)
(* change event of the document ("store"), the _bubbleEvent of a store     *)
(* that initialise has replaced is ("replaced"), or nothing is ("none").   *)
(* The                                                                     *)
(* last field records the history: pending counts the applyChanges calls   *)
(* the parse tree has not seen yet.                                        *)
(***************************************************************************)
Uris == {"a.php", "b.php"}

\* applyChanges calls one document takes between two reparses
MaxEdits == 2
\* longest text, in declarations
MaxTextLen == 1
\* longest contentChanges array
MaxChanges == 2

\* the ParsedDocument objects the model makes, in the order of their making
DocIds == {1, 2}
Decls == {"c"}
Texts == SeqsUpTo(Decls, MaxTextLen)

\* Parser.parse(text) (lines 37, 42)
Parse(text) == [phraseType |-> "StatementList", children |-> text]

\* this._textDocument.applyEdit(start, end, text) (line 100): the text
\* between the two offsets gives way to the new text
ApplyEdit(text, change) ==
    SubSeq(text, 1, change.start) \o change.text \o SubSeq(text, change.end + 1, Len(text))

RECURSIVE ApplyEdits(_, _)
\* the for loop of applyChanges (lines 98-101)
ApplyEdits(text, changes) ==
    IF changes = <<>> THEN text
    ELSE ApplyEdits(ApplyEdit(text, Head(changes)), Tail(changes))

\* the content changes the editor sends for a text: a declaration typed at
\* the end, or the first declaration deleted
ChangesFor(text) ==
    (IF Len(text) < MaxTextLen
     THEN {[start |-> Len(text), end |-> Len(text), text |-> <<x>>] : x \in Decls}
     ELSE {})
    \cup (IF Len(text) > 0 THEN {[start |-> 0, end |-> 1, text |-> <<>>]} ELSE {})

RECURSIVE ChangeLists(_, _)
\* the contentChanges arrays of at most k changes, each change fitting the
\* text the changes before it leave
ChangeLists(text, k) ==
    IF k = 0 THEN {<<>>}
    ELSE {<<>>} \cup
         UNION {{<<c>> \o rest : rest \in ChangeLists(ApplyEdit(text, c), k - 1)} :
                    c \in ChangesFor(text)}

NoDocument ==
    [uri |-> "", text |-> <<>>, tree |-> Parse(<<>>), timer |-> FALSE, bubble |-> "none",
     pending |-> 0]

\* the constructor (lines 41-47)
NewParsedDocument(uri, text) ==
    [uri |-> uri, text |-> text, tree |-> Parse(text), timer |-> FALSE, bubble |-> "none",
     pending |-> 0]

\* Debounce.handle: the running timer, if any, is cleared and a new one
\* of textDocumentChangeDebounceWait milliseconds is started
DebounceHandle(doc) ==
    [doc EXCEPT !.timer = TRUE]

\* mutant: the text is patched and no reparse is scheduled
ApplyChangesUnscheduled(doc, changes) ==
    [doc EXCEPT !.text = ApplyEdits(@, changes), !.pending = @ + 1]

\* applyChanges (lines 94-105)
ApplyChanges(doc, changes) ==
    DebounceHandle([doc EXCEPT !.text = ApplyEdits(@, changes), !.pending = @ + 1])

(***************************************************************************)
(* The symbol store as the Intelephense namespace uses it: the symbol      *)
(* tables by URI.  A table is [uri, symbols].                              *)
(***************************************************************************)
BuiltInUri == "php"
TableUris == Uris \cup {BuiltInUri}

NoTable == [uri |-> "", symbols |-> <<>>]

\* the symbols the reader finds in a parse tree: one per declaration
ReadSymbols(tree) ==
    [i \in 1..Len(tree.children) |->
        [kind |-> Class, declaration |-> i]]

\* SymbolTable.create(parsedDocument)
SymbolTableCreate(doc) ==
    [uri |-> doc.uri, symbols |-> ReadSymbols(doc.tree)]

\* SymbolTable.createBuiltIn() (called at intelephense.ts line 66;
\* readBuiltInSymbols at part_000 line 82): the table of the built-in
\* symbols.  Neither the function nor the symbols it reads are among the
\* sources, so how many symbols the table holds is not known: it is any of
\* the tables of up to MaxBuiltIn symbols, the empty one among them.
MaxBuiltIn == 2
BuiltInTables ==
    {[uri |-> BuiltInUri,
      symbols |-> [i \in 1..count |-> [kind |-> Class, declaration |-> i]]] :
        count \in 0..MaxBuiltIn}

\* SymbolStore.add, SymbolStore.remove, SymbolStore.getSymbolTable
SymbolStoreAdd(tables, table) == [tables EXCEPT ![table.uri] = table]
SymbolStoreRemove(tables, uri) == [tables EXCEPT ![uri] = NoTable]
GetSymbolTable(tables, uri) == tables[uri]

\* SymbolTable.count
TableSymbolCount(table) == Len(table.symbols)

RECURSIVE SumCounts(_, _)
SumCounts(tables, uris) ==
    IF uris = {} THEN 0
    ELSE LET u == CHOOSE x \in uris : TRUE
         IN  TableSymbolCount(tables[u]) + SumCounts(tables, uris \ {u})

\* SymbolStore.symbolCount, SymbolStore.tableCount
SymbolCount(tables) == SumCounts(tables, TableUris)
TableCount(tables) == Cardinality({u \in TableUris : tables[u] # NoTable})

\* SymbolStore.onParsedDocumentChange: the symbols of the URI give way to
\* the symbols read from the document
OnParsedDocumentChange(tables, doc) ==
    SymbolStoreAdd(SymbolStoreRemove(tables, doc.uri), SymbolTableCreate(doc))

\* mutant: the change event is triggered before the text is parsed
ReparseEventFirst(docs, tables, d) ==
    LET doc == docs[d]
        parsed == [doc EXCEPT !.tree = Parse(doc.text), !.pending = 0]
        heard == doc.bubble # "none"
    IN  [documents |-> [docs EXCEPT ![d] = parsed],
         symbolTables |-> IF heard THEN OnParsedDocumentChange(tables, doc) ELSE tables,
         reparses |-> 1,
         delivered |-> IF heard THEN 1 ELSE 0]

\* _reparse (lines 36-39) of the document d: the text is parsed, then the
\* change event is triggered; a subscribed document store bubbles it to
\* its own event (lines 362-364), where the symbol store listens
\* (intelephense.ts 65).  The listener part_000 subscribes (lines 74-77)
\* reads the variable symbolStore when it is called, so the event of a
\* store that its initialise has replaced reaches the symbol store of the
\* day.  reparses counts the runs of _reparse, delivered
\* the calls of onParsedDocumentChange.
Reparse(docs, tables, d) ==
    LET doc == docs[d]
        parsed == [doc EXCEPT !.tree = Parse(doc.text), !.pending = 0]
        heard == parsed.bubble # "none"
    IN  [documents |-> [docs EXCEPT ![d] = parsed],
         symbolTables |-> IF heard THEN OnParsedDocumentChange(tables, parsed) ELSE tables,
         reparses |-> 1,
         delivered |-> IF heard THEN 1 ELSE 0]

\* the timer of the debounce fires: the handler runs and the timer is gone
DebounceFire(docs, tables, d) ==
    LET r == Reparse(docs, tables, d)
    IN  [r EXCEPT !.documents[d].timer = FALSE]

\* flush (lines 80-82), Debounce.flush: nothing without a running timer,
\* else the timer is cleared and the handler runs at once
Flush(docs, tables, d) ==
    IF ~docs[d].timer
    THEN [documents |-> docs, symbolTables |-> tables, reparses |-> 0, delivered |-> 0]
    ELSE DebounceFire(docs, tables, d)

(***************************************************************************)
(* ParsedDocumentStore (parsedDocument.ts 357-409):                        *)
(*   [map, unsubscribeMap], each a function of the URI, 0 for undefined.   *)
(***************************************************************************)
EmptyDocumentStore ==
    [map |-> [u \in Uris |-> 0], unsubscribeMap |-> [u \in Uris |-> 0]]

\* has (lines 380-382), find (lines 405-407), count (lines 376-378)
Has(ds, uri) == ds.map[uri] # 0
FindDocument(ds, uri) == ds.map[uri]
DocumentCount(ds) == Cardinality({u \in Uris : ds.map[u] # 0})

\* mutant: add takes the document whatever the map holds
StoreAddUnchecked(ds, docs, d) ==
    [status |-> "added",
     documentStore |-> [map |-> [ds.map EXCEPT ![docs[d].uri] = d],
                        unsubscribeMap |-> [ds.unsubscribeMap EXCEPT ![docs[d].uri] = d]],
     documents |-> [docs EXCEPT ![d].bubble = "store"]]

\* add (lines 384-391): [status, documentStore, documents]
StoreAdd(ds, docs, d) ==
    IF Has(ds, docs[d].uri)
    THEN [status |-> "Duplicate key", documentStore |-> ds, documents |-> docs]
    ELSE [status |-> "added",
          documentStore |-> [map |-> [ds.map EXCEPT ![docs[d].uri] = d],
                             unsubscribeMap |-> [ds.unsubscribeMap EXCEPT ![docs[d].uri] = d]],
          documents |-> [docs EXCEPT ![d].bubble = "store"]]

\* mutant: remove deletes the entry of the map and leaves the subscription
StoreRemoveSubscribed(ds, docs, uri) ==
    IF ~Has(ds, uri)
    THEN [documentStore |-> ds, documents |-> docs]
    ELSE [documentStore |-> [ds EXCEPT !.map[uri] = 0], documents |-> docs]

\* remove (lines 393-403): the subscription of the stored document is
\* ended and the entry of the map deleted; unsubscribeMap keeps its entry
StoreRemove(ds, docs, uri) ==
    IF ~Has(ds, uri)
    THEN [documentStore |-> ds, documents |-> docs]
    ELSE [documentStore |-> [ds EXCEPT !.map[uri] = 0],
          documents |-> [docs EXCEPT ![ds.unsubscribeMap[uri]].bubble = "none"]]

\* the ParsedDocument objects made so far, and the next one
\* the objects that are alive, and the next one that can be made
Made(docs) == {d \in DocIds : docs[d].uri # ""}
CanMake(docs) == Made(docs) # DocIds
NextDocId(docs) ==
    CHOOSE d \in DocIds \ Made(docs) : \A e \in DocIds \ Made(docs) : d <= e

\* a document that the document store does not hold and no timer will run
\* is garbage, and so is what is left to unsubscribe it
Garbage(docs) == {d \in DocIds : docs[d].bubble # "store" /\ ~docs[d].timer}
Collect(docs) ==
    [d \in DocIds |-> IF d \in Garbage(docs) THEN NoDocument ELSE docs[d]]
CollectUnsubscribe(ds, docs) ==
    [ds EXCEPT !.unsubscribeMap =
        [u \in Uris |-> IF @[u] \in Garbage(docs) THEN 0 ELSE @[u]]]

NoTree == [phraseType |-> "none", children |-> <<>>]

\* a call and its answer: value is the number or the object returned (of
\* initialise, which returns nothing, the documents the replaced store held),
\* changes the contentChanges of editDocument, edits the applyChanges calls
\* a reparse answers, table and tree what a provider is given; reparses and delivered count the runs of _reparse
\* and the deliveries to the symbol store the call has made
NoAnswer ==
    [op |-> "none", uri |-> "", status |-> "none", value |-> 0,
     changes |-> <<>>, edits |-> 0, table |-> NoTable, tree |-> NoTree,
     reparses |-> 0, delivered |-> 0]

\* the answer of a call that returns, with a value or with none
Returned(op, uri) == [NoAnswer EXCEPT !.op = op, !.uri = uri, !.status = "returned"]
ReturnedNothing(op, uri) == [Returned(op, uri) EXCEPT !.status = "returned nothing"]

\* the document store, the symbol store and the reader at rest
NoDocuments ==
    /\ documents = [d \in DocIds |-> NoDocument]
    /\ documentStore = EmptyDocumentStore
    /\ symbolTables = [u \in TableUris |-> NoTable]
    /\ answer = NoAnswer

\* a source: the declaration it holds and the state the namespace reader
\* and the import table reader leave in the name resolver
NoProgram ==
    [decl |-> "none", namespace |-> <<>>, braced |-> FALSE, imports |-> FALSE,
     name |-> "", extends |-> <<>>, implements |-> <<>>, traits |-> "none",
     doc |-> FALSE, tags |-> <<>>, params |-> <<>>, returnType |-> <<>>,
     members |-> <<>>]

NoReader ==
    /\ nodes = <<>>
    /\ stack = <<>>
    /\ active = 0
    /\ symbolTreeRoot = <<>>
    /\ program = NoProgram

\* a frame of the resolved variable table: a scope, a branch group or a
\* branch, the types it binds and, for a group, the branches committed
Frame(kind) == [kind |-> kind, types |-> {}, branches |-> <<>>]

\* new ResolvedVariableTable(): the scope of the source
NewVariableTable == <<Frame("scope")>>

\* new TypeResolver(variableTable, nameResolver) (visitors.ts 891-894),
\* with the visits its traversal has still to make and the source visited
NewTypeResolver ==
    [stack |-> <<>>, modeStack |-> <<>>, variableTable |-> NewVariableTable,
     visits |-> <<>>, source |-> <<>>]

NoResolver == resolver = NewTypeResolver

\* no token: _previousToken before the first token is visited
NoToken == [tokenType |-> "undefined", text |-> <<>>]

\* the fields of a FormatVisitor as their declarations leave them
\* (completionProvider.ts 733-738), with the visits its traversal has still
\* to make and the source visited
NewFormatVisitor ==
    [edits |-> <<>>, previousToken |-> NoToken, nextFormatRule |-> "undefined",
     isMultilineCommaDelimitedListStack |-> <<>>, indentUnit |-> <<>>,
     indentText |-> <<>>, formatOptions |-> [insertSpaces |-> FALSE, tabSize |-> 0],
     visits |-> <<>>, source |-> <<>>]

NoFormatter == formatter = NewFormatVisitor

(***************************************************************************)
(* new TypeAggregate(symbolStore, symbol) and TypeAggregate.create         *)
(* (typeAggregate.ts 24-29, 180-193).                                      *)
(***************************************************************************)
\* SymbolKind: the three class-like kinds, the other kinds, and "None" for
\* a symbol whose kind has no bit set
SymbolKinds ==
    {Class, Interface, Trait, "Constant", "Property", "Method", "Function",
     "Parameter", "Variable", "Namespace", "None"}

\* symbol.kind & (SymbolKind.Class | SymbolKind.Interface | SymbolKind.Trait)
IsClassLikeKind(k) == k \in {Class, Interface, Trait}

\* the argument null (of a symbol, of a symbol store, of a name)
Null == "null"

\* the second argument of the constructor: null or a symbol of the store
SymbolArgs == {Null} \cup TypeNames
\* the first argument: the symbol store of the state, or null
StoreArgs == {"symbolStore", Null}

\* mutant: the kind test forgets the traits
NewTypeAggregateNoTrait(st, storeArg, sym) ==
    IF sym = Null \/ st[sym].kind \notin {Class, Interface}
    THEN [status |-> "Invalid Argument", value |-> Null]
    ELSE [status |-> "constructed", value |-> sym]

\* the constructor (lines 24-29): [status, value], value the symbol the new
\* aggregate holds.  The symbol store is kept and not read.
NewTypeAggregate(st, storeArg, sym) ==
    IF sym = Null \/ ~IsClassLikeKind(st[sym].kind)
    THEN [status |-> "Invalid Argument", value |-> Null]
    ELSE [status |-> "constructed", value |-> sym]

\* TypeAggregate.create (lines 180-193): null for no name and for a name
\* the store has no class-like of; reading a null store is a TypeError
CreateTypeAggregate(st, storeArg, fqn) ==
    IF fqn = "" THEN [status |-> "returned", value |-> Null]
    ELSE IF storeArg = Null THEN [status |-> "TypeError", value |-> Null]
    ELSE IF Find(st, fqn) = "" THEN [status |-> "returned", value |-> Null]
    ELSE NewTypeAggregate(st, storeArg, Find(st, fqn))

\* stores for the constructor: the three declared names carry any kind
KindStores ==
    {[t \in TypeNames |-> [kind |-> k[t], associated |-> <<>>, children |-> <<>>]] :
        k \in [TypeNames -> SymbolKinds]}

(***************************************************************************)
(* _mergeMembers on its own, one loop iteration per step.                  *)
(***************************************************************************)
InitMerge ==
    /\ store = EmptyStore
    /\ symbol = "A"
    /\ assocCache = NoCache
    /\ queue = <<>>
    /\ call = NoCall
    /\ result = NoResult
    /\ symbols \in MergeInputs
    /\ strategy \in Strategies
    /\ n = 1
    /\ map = EmptyMap
    /\ merged = <<>>
    /\ pc = "merge"
    /\ NoDocuments
    /\ NoReader
    /\ NoResolver
    /\ NoFormatter

\* lines 126-128
MergeNone ==
    /\ pc = "merge"
    /\ strategy = None
    /\ result' = [status |-> "returned", value |-> symbols]
    /\ pc' = "done"
    /\ UNCHANGED <<store, symbol, assocCache, queue, call, symbols, strategy, n, map, merged>>
    /\ UNCHANGED <<docVars, visitorVars>>

\* lines 130-143: one iteration
MergeIterate ==
    /\ pc = "merge"
    /\ strategy # None
    /\ n <= Len(symbols)
    /\ LET st == MergeStep([map |-> map, merged |-> merged, threw |-> FALSE],
                           symbols[n], strategy)
       IN  IF st.threw
           THEN /\ result' = [status |-> "TypeError", value |-> <<>>]
                /\ pc' = "done"
                /\ UNCHANGED <<n, map, merged>>
           ELSE /\ map' = st.map
                /\ merged' = st.merged
                /\ n' = n + 1
                /\ UNCHANGED <<result, pc>>
    /\ UNCHANGED <<store, symbol, assocCache, queue, call, symbols, strategy>>
    /\ UNCHANGED <<docVars, visitorVars>>

\* line 145
MergeReturn ==
    /\ pc = "merge"
    /\ strategy # None
    /\ n > Len(symbols)
    /\ result' = [status |-> "returned", value |-> merged]
    /\ pc' = "done"
    /\ UNCHANGED <<store, symbol, assocCache, queue, call, symbols, strategy, n, map, merged>>
    /\ UNCHANGED <<docVars, visitorVars>>

NextMerge == MergeNone \/ MergeIterate \/ MergeReturn

SpecMerge == InitMerge /\ [][NextMerge]_vars

(***************************************************************************)
(* associated() : _getAssociated, one loop iteration per step.             *)
(***************************************************************************)
InitAssoc ==
    /\ store \in GraphStores
    /\ symbol = "A"
    /\ assocCache = NoCache
    /\ queue = <<>>
    /\ call = NoCall
    /\ result = NoResult
    /\ symbols = <<>>
    /\ strategy = None
    /\ n = 1
    /\ map = EmptyMap
    /\ merged = <<>>
    /\ pc = "idle"
    /\ NoDocuments
    /\ NoReader
    /\ NoResolver
    /\ NoFormatter

\* lines 150-152: the list is there already
GetAssociatedCached ==
    /\ pc = "idle"
    /\ assocCache.isSet
    /\ UNCHANGED vars

\* lines 154-162
GetAssociatedEnter ==
    /\ pc = "idle"
    /\ ~assocCache.isSet
    /\ assocCache' = [isSet |-> TRUE, list |-> <<>>]
    /\ IF store[symbol].associated = <<>>
       THEN UNCHANGED <<queue, pc>>
       ELSE /\ queue' = store[symbol].associated
            /\ pc' = "walk"
    /\ UNCHANGED <<store, symbol, call, result, symbols, strategy, n, map, merged>>
    /\ UNCHANGED <<docVars, visitorVars>>

\* lines 164-174: one iteration
GetAssociatedIterate ==
    /\ pc = "walk"
    /\ queue # <<>>
    /\ LET nx == AssocStep(store, queue, assocCache.list)
       IN  /\ queue' = nx.queue
           /\ assocCache' = [assocCache EXCEPT !.list = nx.list]
    /\ UNCHANGED <<store, symbol, call, result, symbols, strategy, n, map, merged, pc>>
    /\ UNCHANGED <<docVars, visitorVars>>

\* line 176
GetAssociatedReturn ==
    /\ pc = "walk"
    /\ queue = <<>>
    /\ pc' = "idle"
    /\ UNCHANGED <<store, symbol, assocCache, queue, call, result, symbols, strategy, n, map, merged>>
    /\ UNCHANGED <<docVars, visitorVars>>

NextAssoc ==
    GetAssociatedCached \/ GetAssociatedEnter \/ GetAssociatedIterate \/ GetAssociatedReturn

SpecAssoc == InitAssoc /\ [][NextAssoc]_vars

(***************************************************************************)
(* members() and associated() of an aggregate of the class A.              *)
(***************************************************************************)
InitMembers ==
    /\ store \in MemberStores
    /\ symbol = "A"
    /\ assocCache = NoCache
    /\ queue = <<>>
    /\ call = NoCall
    /\ result = NoResult
    /\ symbols = <<>>
    /\ strategy = None
    /\ n = 1
    /\ map = EmptyMap
    /\ merged = <<>>
    /\ pc = "idle"
    /\ NoDocuments
    /\ NoReader
    /\ NoResolver
    /\ NoFormatter

\* associated() without a filter (lines 46-49)
Associated ==
    /\ pc = "idle"
    /\ assocCache' = [isSet |-> TRUE, list |-> GetAssociated(store, symbol, assocCache)]
    /\ UNCHANGED <<store, symbol, queue, call, result, symbols, strategy, n, map, merged, pc>>
    /\ UNCHANGED <<docVars, visitorVars>>

\* members(mergeStrategy, predicate) (lines 51-67)
Members(strat, predicate) ==
    /\ pc = "idle"
    /\ assocCache' = [isSet |-> TRUE, list |-> GetAssociated(store, symbol, assocCache)]
    /\ call' = [strategy |-> strat, predicate |-> predicate]
    /\ result' = MembersOf(store, symbol, assocCache', strat, predicate)
    /\ UNCHANGED <<store, symbol, queue, symbols, strategy, n, map, merged, pc>>
    /\ UNCHANGED <<docVars, visitorVars>>

NextMembers ==
    \/ Associated
    \/ \E strat \in Strategies, predicate \in CallerPredicates : Members(strat, predicate)

SpecMembers == InitMembers /\ [][NextMembers]_vars

(***************************************************************************)
(* Constructing aggregates over a store whose symbols carry any kind.      *)
(***************************************************************************)
InitConstruct ==
    /\ store \in KindStores
    /\ symbol = Null
    /\ assocCache = NoCache
    /\ queue = <<>>
    /\ call = [op |-> "none", store |-> Null, symbol |-> Null]
    /\ result = [status |-> "none", value |-> Null]
    /\ symbols = <<>>
    /\ strategy = None
    /\ n = 1
    /\ map = EmptyMap
    /\ merged = <<>>
    /\ pc = "idle"
    /\ NoDocuments
    /\ NoReader
    /\ NoResolver
    /\ NoFormatter

\* new TypeAggregate(storeArg, sym); a throw leaves the variable that
\* would have taken the aggregate as it was
New(storeArg, sym) ==
    /\ pc = "idle"
    /\ call' = [op |-> "new", store |-> storeArg, symbol |-> sym]
    /\ result' = NewTypeAggregate(store, storeArg, sym)
    /\ IF result'.status = "constructed"
       THEN symbol' = result'.value /\ assocCache' = NoCache
       ELSE UNCHANGED <<symbol, assocCache>>
    /\ UNCHANGED <<store, queue, symbols, strategy, n, map, merged, pc>>
    /\ UNCHANGED <<docVars, visitorVars>>

\* TypeAggregate.create(storeArg, fqn)
Create(storeArg, fqn) ==
    /\ pc = "idle"
    /\ call' = [op |-> "create", store |-> storeArg, symbol |-> fqn]
    /\ result' = CreateTypeAggregate(store, storeArg, fqn)
    /\ IF result'.status = "constructed"
       THEN symbol' = result'.value /\ assocCache' = NoCache
       ELSE UNCHANGED <<symbol, assocCache>>
    /\ UNCHANGED <<store, queue, symbols, strategy, n, map, merged, pc>>
    /\ UNCHANGED <<docVars, visitorVars>>

NextConstruct ==
    \/ \E storeArg \in StoreArgs, sym \in SymbolArgs : New(storeArg, sym)
    \/ \E storeArg \in StoreArgs, fqn \in StubNames \cup {""} : Create(storeArg, fqn)

SpecConstruct == InitConstruct /\ [][NextConstruct]_vars

(***************************************************************************)
(* A ParsedDocumentStore on its own: documents are made, added and         *)
(* removed.                                                                *)
(***************************************************************************)
\* the type aggregate at rest
NoAggregate ==
    /\ store = EmptyStore
    /\ symbol = "A"
    /\ assocCache = NoCache
    /\ queue = <<>>
    /\ call = NoCall
    /\ result = NoResult
    /\ symbols = <<>>
    /\ strategy = None
    /\ n = 1
    /\ map = EmptyMap
    /\ merged = <<>>
    /\ pc = "idle"

InitDocStore ==
    /\ NoAggregate
    /\ NoDocuments
    /\ NoReader
    /\ NoResolver
    /\ NoFormatter

\* new ParsedDocument(uri, text)
MakeDocument(uri, text) ==
    /\ CanMake(documents)
    /\ documents' = [documents EXCEPT ![NextDocId(documents)] = NewParsedDocument(uri, text)]
    /\ answer' = [Returned("new", uri) EXCEPT
                      !.value = NextDocId(documents)]
    /\ UNCHANGED <<documentStore, symbolTables>>
    /\ UNCHANGED <<aggVars, visitorVars>>

\* documentStore.add(d)
Add(d) ==
    /\ d \in Made(documents)
    /\ LET r == StoreAdd(documentStore, documents, d)
       IN  /\ documentStore' = r.documentStore
           /\ documents' = r.documents
           /\ answer' = [Returned("add", documents[d].uri) EXCEPT
                             !.value = d,
                             !.status = r.status]
    /\ UNCHANGED symbolTables
    /\ UNCHANGED <<aggVars, visitorVars>>

\* documentStore.remove(uri)
Remove(uri) ==
    /\ LET r == StoreRemove(documentStore, documents, uri)
       IN  /\ documentStore' = r.documentStore
           /\ documents' = r.documents
    /\ answer' = Returned("remove", uri)
    /\ UNCHANGED symbolTables
    /\ UNCHANGED <<aggVars, visitorVars>>

NextDocStore ==
    \/ \E uri \in Uris, text \in Texts : MakeDocument(uri, text)
    \/ \E d \in DocIds : Add(d)
    \/ \E uri \in Uris : Remove(uri)

SpecDocStore == InitDocStore /\ [][NextDocStore]_vars

(***************************************************************************)
(* The Intelephense namespace (intelephense.ts): the document store and    *)
(* the symbol store behind the requests of the editor, and the timers of   *)
(* the documents.                                                          *)
(***************************************************************************)
LanguageIds == {"php", "html"}
phpLanguageId == "php"

\* the symbol stores initialise() may leave: a new store (line 59) with
\* the built-in table alone (line 66)
BuiltInOnly ==
    {SymbolStoreAdd([u \in TableUris |-> NoTable], table) : table \in BuiltInTables}

\* numberDocumentsOpen, numberDocumentsKnown, numberSymbolsKnown
\* (lines 169-179)
NumberDocumentsOpen == DocumentCount(documentStore)
NumberDocumentsKnown == TableCount(symbolTables)
NumberSymbolsKnown == SymbolCount(symbolTables)

\* the state initialise() makes
InitDocs ==
    /\ NoAggregate
    /\ NoReader
    /\ NoResolver
    /\ NoFormatter
    /\ documents = [d \in DocIds |-> NoDocument]
    /\ documentStore = EmptyDocumentStore
    /\ symbolTables \in BuiltInOnly
    /\ answer = Returned("initialise", "")

\* initialise (lines 55-68): new stores.  The listener of line 65 is the
\* onParsedDocumentChange of the replaced symbol store, so the documents of
\* the replaced document store are garbage with it: a timer they still have
\* fires into the replaced stores, which nothing reads any more.
Initialise ==
    /\ documents' = [d \in DocIds |-> NoDocument]
    /\ documentStore' = EmptyDocumentStore
    /\ symbolTables' \in BuiltInOnly
    /\ answer' = [Returned("initialise", "") EXCEPT !.value = DocumentCount(documentStore)]
    /\ UNCHANGED <<aggVars, visitorVars>>

\* initialise(options) (part_000 56-84): new stores.  The listener of lines
\* 74-77 calls the symbolStore of the namespace, whichever it is when the
\* event comes: a document of the replaced store whose timer still runs
\* stays subscribed by that store, and its reparse is delivered to the new
\* symbol store.
InitialiseOptions ==
    /\ documents' = Collect([d \in DocIds |->
                        IF documents[d].bubble = "store"
                        THEN [documents[d] EXCEPT !.bubble = "replaced"]
                        ELSE documents[d]])
    /\ documentStore' = EmptyDocumentStore
    /\ symbolTables' \in BuiltInOnly
    /\ answer' = [Returned("initialise", "") EXCEPT !.value = DocumentCount(documentStore)]
    /\ UNCHANGED <<aggVars, visitorVars>>

\* openDocument (lines 82-96)
OpenDocument(uri, languageId, text) ==
    /\ IF languageId # phpLanguageId \/ Has(documentStore, uri)
       THEN UNCHANGED <<documents, documentStore, symbolTables>>
       ELSE /\ CanMake(documents)
            /\ LET d == NextDocId(documents)
                   made == [documents EXCEPT ![d] = NewParsedDocument(uri, text)]
                   r == StoreAdd(documentStore, made, d)
               IN  /\ documents' = r.documents
                   /\ documentStore' = r.documentStore
                   /\ symbolTables' = SymbolStoreAdd(SymbolStoreRemove(symbolTables, uri),
                                                     SymbolTableCreate(made[d]))
    /\ answer' = Returned("openDocument", uri)
    /\ UNCHANGED <<aggVars, visitorVars>>

\* closeDocument (lines 98-101)
CloseDocument(uri) ==
    /\ LET r == StoreRemove(documentStore, documents, uri)
       IN  /\ documentStore' = CollectUnsubscribe(r.documentStore, r.documents)
           /\ documents' = Collect(r.documents)
    /\ answer' = Returned("closeDocument", uri)
    /\ UNCHANGED symbolTables
    /\ UNCHANGED <<aggVars, visitorVars>>

\* editDocument (lines 103-112)
EditDocument(uri, changes) ==
    /\ LET d == FindDocument(documentStore, uri)
       IN  IF d = 0
           THEN changes = <<>> /\ UNCHANGED documents
           ELSE /\ documents[d].pending < MaxEdits
                /\ changes \in ChangeLists(documents[d].text, MaxChanges)
                /\ documents' = [documents EXCEPT ![d] = ApplyChanges(@, changes)]
    /\ answer' = [Returned("editDocument", uri) EXCEPT
                      !.changes = changes]
    /\ UNCHANGED <<documentStore, symbolTables>>
    /\ UNCHANGED <<aggVars, visitorVars>>

\* mutant: the request goes to the provider with the debounce left alone
FlushParseDebounceSkipped(docs, tables, ds, uri) ==
    [documents |-> docs, symbolTables |-> tables, reparses |-> 0, delivered |-> 0]

\* flushParseDebounce (lines 181-186)
FlushParseDebounce(docs, tables, ds, uri) ==
    LET d == FindDocument(ds, uri)
    IN  IF d = 0
        THEN [documents |-> docs, symbolTables |-> tables, reparses |-> 0, delivered |-> 0]
        ELSE Flush(docs, tables, d)

\* documentSymbols, provideCompletions, provideSignatureHelp and
\* provideDefinition (lines 114-136), all of one shape: flushParseDebounce,
\* then the provider.  The answer is what the provider is given to read,
\* the symbol table of the URI and the parse tree of the document.
Query(uri) ==
    /\ LET d == FindDocument(documentStore, uri)
           r == FlushParseDebounce(documents, symbolTables, documentStore, uri)
       IN  /\ documents' = r.documents
           /\ symbolTables' = r.symbolTables
           /\ answer' = [Returned("query", uri) EXCEPT
                             !.table = GetSymbolTable(r.symbolTables, uri),
                             !.tree = IF d = 0 THEN NoTree ELSE r.documents[d].tree,
                             !.reparses = r.reparses,
                             !.delivered = r.delivered]
    /\ UNCHANGED documentStore
    /\ UNCHANGED <<aggVars, visitorVars>>

\* discover (lines 138-155)
Discover(uri, text) ==
    /\ IF Has(documentStore, uri)
       THEN /\ answer' = [Returned("discover", uri) EXCEPT
                          !.value = IF GetSymbolTable(symbolTables, uri) # NoTable
                                    THEN TableSymbolCount(GetSymbolTable(symbolTables, uri))
                                    ELSE 0]
            /\ UNCHANGED symbolTables
       ELSE LET table == SymbolTableCreate(NewParsedDocument(uri, text))
            IN  /\ symbolTables' = SymbolStoreAdd(SymbolStoreRemove(symbolTables, uri), table)
                /\ answer' = [Returned("discover", uri) EXCEPT
                                  !.value = TableSymbolCount(table)]
    /\ UNCHANGED <<documents, documentStore>>
    /\ UNCHANGED <<aggVars, visitorVars>>

\* forget (intelephense.ts lines 157-167)
Forget(uri) ==
    /\ LET table == GetSymbolTable(symbolTables, uri)
       IN  IF table = NoTable \/ Has(documentStore, uri)
           THEN /\ answer' = Returned("forget", uri)
                /\ UNCHANGED symbolTables
           ELSE /\ answer' = [Returned("forget", uri) EXCEPT
                                  !.value = TableSymbolCount(table)]
                /\ symbolTables' = SymbolStoreRemove(symbolTables, table.uri)
    /\ UNCHANGED <<documents, documentStore>>
    /\ UNCHANGED <<aggVars, visitorVars>>

\* forget as the other version of the namespace has it (part_000 lines
\* 190-193): the table goes whatever the document store holds, and
\* nothing is returned
ForgetUnconditionally(uri) ==
    /\ symbolTables' = SymbolStoreRemove(symbolTables, uri)
    /\ answer' = ReturnedNothing("forget", uri)
    /\ UNCHANGED <<documents, documentStore>>
    /\ UNCHANGED <<aggVars, visitorVars>>

htmlLanguageId == "html"

\* SymbolStore.add raises for a URI it holds a table of
SymbolStoreAddThrows(tables, table) == tables[table.uri] # NoTable

\* openDocument as the other version of the namespace has it (part_000
\* lines 92-106): the table is added with no remove before it, after the
\* document store has taken the document
OpenDocumentAdding(uri, languageId, text) ==
    /\ IF (languageId # phpLanguageId /\ languageId # htmlLanguageId)
          \/ Has(documentStore, uri)
       THEN /\ UNCHANGED <<documents, documentStore, symbolTables>>
            /\ answer' = Returned("openDocument", uri)
       ELSE /\ CanMake(documents)
            /\ LET d == NextDocId(documents)
                   made == [documents EXCEPT ![d] = NewParsedDocument(uri, text)]
                   r == StoreAdd(documentStore, made, d)
                   table == SymbolTableCreate(made[d])
               IN  /\ documents' = r.documents
                   /\ documentStore' = r.documentStore
                   /\ IF SymbolStoreAddThrows(symbolTables, table)
                      THEN /\ UNCHANGED symbolTables
                           /\ answer' = [Returned("openDocument", uri) EXCEPT
                                             !.status = "Error"]
                      ELSE /\ symbolTables' = SymbolStoreAdd(symbolTables, table)
                           /\ answer' = Returned("openDocument", uri)
    /\ UNCHANGED <<aggVars, visitorVars>>

\* discoverSymbols (part_000 lines 149-166): no remove before the add
DiscoverSymbols(uri, text) ==
    /\ IF Has(documentStore, uri)
       THEN /\ answer' = [Returned("discover", uri) EXCEPT
                          !.value = IF GetSymbolTable(symbolTables, uri) # NoTable
                                    THEN TableSymbolCount(GetSymbolTable(symbolTables, uri))
                                    ELSE 0]
            /\ UNCHANGED symbolTables
       ELSE LET table == SymbolTableCreate(NewParsedDocument(uri, text))
            IN  IF SymbolStoreAddThrows(symbolTables, table)
                THEN /\ UNCHANGED symbolTables
                     /\ answer' = [Returned("discover", uri) EXCEPT !.status = "Error"]
                ELSE /\ symbolTables' = SymbolStoreAdd(symbolTables, table)
                     /\ answer' = [Returned("discover", uri) EXCEPT
                                       !.value = TableSymbolCount(table)]
    /\ UNCHANGED <<documents, documentStore>>
    /\ UNCHANGED <<aggVars, visitorVars>>

\* the timer of the debounce of a document fires
TimerFire(d) ==
    /\ documents[d].timer
    /\ LET r == DebounceFire(documents, symbolTables, d)
       IN  /\ documents' = Collect(r.documents)
           /\ symbolTables' = r.symbolTables
           /\ documentStore' = CollectUnsubscribe(documentStore, r.documents)
           /\ answer' = [Returned("timer", documents[d].uri) EXCEPT
                             !.value = d,
                             !.edits = documents[d].pending,
                             !.reparses = r.reparses,
                             !.delivered = r.delivered]
    /\ UNCHANGED <<aggVars, visitorVars>>

\* The namespace of intelephense.ts.
NextDocs ==
    \/ Initialise
    \/ \E uri \in Uris, languageId \in LanguageIds, text \in Texts :
            OpenDocument(uri, languageId, text)
    \/ \E uri \in Uris : CloseDocument(uri)
    \/ \E uri \in Uris, changes \in SeqsUpTo(UNION {ChangesFor(t) : t \in Texts}, MaxChanges) :
            EditDocument(uri, changes)
    \/ \E uri \in Uris : Query(uri)
    \/ \E uri \in Uris, text \in Texts : Discover(uri, text)
    \/ \E uri \in Uris : Forget(uri)
    \/ \E d \in DocIds : TimerFire(d)

SpecDocs == InitDocs /\ [][NextDocs]_vars

\* the URIs the requests to the namespace of part_000 are about: one, whose
\* documents follow one another
OptionUris == {"a.php"}

\* The namespace of part_000: its initialise, openDocument, discoverSymbols
\* and forget; closeDocument (lines 108-112), editDocument (114-123) and the
\* queries (125-147) do to the two stores what those of intelephense.ts do.
NextOptions ==
    \/ InitialiseOptions
    \/ \E uri \in OptionUris, languageId \in LanguageIds, text \in Texts :
            OpenDocumentAdding(uri, languageId, text)
    \/ \E uri \in OptionUris : CloseDocument(uri)
    \/ \E uri \in OptionUris, changes \in SeqsUpTo(UNION {ChangesFor(t) : t \in Texts}, MaxChanges) :
            EditDocument(uri, changes)
    \/ \E uri \in OptionUris : Query(uri)
    \/ \E uri \in OptionUris, text \in Texts : DiscoverSymbols(uri, text)
    \/ \E uri \in OptionUris : ForgetUnconditionally(uri)
    \/ \E d \in DocIds : TimerFire(d)

SpecOptions == InitDocs /\ [][NextOptions]_vars

\* The documents under edits alone: opened, edited and asked about, their
\* timers firing.
NextEdits ==
    \/ \E uri \in Uris, languageId \in LanguageIds, text \in Texts :
            OpenDocument(uri, languageId, text)
    \/ \E uri \in Uris, changes \in SeqsUpTo(UNION {ChangesFor(t) : t \in Texts}, MaxChanges) :
            EditDocument(uri, changes)
    \/ \E uri \in Uris : Query(uri)
    \/ \E d \in DocIds : TimerFire(d)

\* setTimeout: the loop runs every timer that is due
SpecEdits ==
    InitDocs /\ [][NextEdits]_vars /\ \A d \in DocIds : WF_vars(TimerFire(d))

(***************************************************************************)
(* SymbolReader (visitors.ts 236-845).                                     *)
(*                                                                         *)
(* A string is the sequence of the parts the namespace separator divides   *)
(* it into: "A\B" is <<"A", "B">>, "B\" is <<"B", "">> and the empty       *)
(* string is <<"">>.  A value of the stack is a record [t, s, items, sym]: *)
(* t is "null", "undefined", "string" (s its parts), "array" (items its    *)
(* elements) or "tree" (sym the PhpSymbol of a Tree<PhpSymbol>).           *)
(* The name of a tag of a doc comment is the sequence of its characters.   *)
(***************************************************************************)
EmptyString == <<"">>

\* a TypeString is the union of its atomic types, each a string; the type
\* of a symbol that was given none is undefined
NoType == [defined |-> FALSE, atoms |-> {}]
\* new TypeString(text) of a string
NewTypeString(parts) ==
    [defined |-> TRUE, atoms |-> IF parts = EmptyString THEN {} ELSE {parts}]
\* TypeString.merge(text): the union
Merge(type, parts) == [type EXCEPT !.atoms = @ \cup NewTypeString(parts).atoms]
\* type === undefined ? new TypeString(text) : type.merge(text) (lines 709,
\* 712)
MergeOrNew(type, parts) ==
    IF type.defined THEN Merge(type, parts) ELSE NewTypeString(parts)

\* a PhpSymbol with its children: type is a TypeString, associated a list
\* of strings; NoSymbol stands where there is none
NoSymbol ==
    [kind |-> "None", name |-> EmptyString, modifiers |-> {}, type |-> NoType,
     associated |-> <<>>, children |-> <<>>]
NewPhpSymbol(kind, name) == [NoSymbol EXCEPT !.kind = kind, !.name = name]

VNull == [t |-> "null", s |-> <<>>, items |-> <<>>, sym |-> NoSymbol]
VUndefined == [VNull EXCEPT !.t = "undefined"]
VString(parts) == [VNull EXCEPT !.t = "string", !.s = parts]
VArray(items) == [VNull EXCEPT !.t = "array", !.items = items]
VTree(sym) == [VNull EXCEPT !.t = "tree", !.sym = sym]

\* !v is false
Truthy(v) ==
    \/ v.t \in {"array", "tree"}
    \/ v.t = "string" /\ v.s # EmptyString

\* new TypeString(v) of a value of the stack
TypeStringOf(v) == NewTypeString(IF v.t = "string" THEN v.s ELSE EmptyString)

\* a node of the parse tree: type is the nonTerminalType, "Token" for a
\* token and "null" for a node whose value is null; doc is the doc comment
\* of a declaration as the docblock parser reads it
NoDoc == [present |-> FALSE, tags |-> <<>>]
DocOf(tags) == [present |-> TRUE, tags |-> tags]
TreeNode(type, flag, text, doc, children) ==
    [type |-> type, flag |-> flag, text |-> text, doc |-> doc, children |-> children]
Token(text) == TreeNode("Token", "", text, NoDoc, <<>>)
NullNode == TreeNode("null", "", "", NoDoc, <<>>)
Phrase(type, children) == TreeNode(type, "", "", NoDoc, children)

\* shouldDescend (lines 353-400)
ShouldDescend(node) ==
    /\ node.type # "null"
    /\ node.type \in
        {"Block", "Case", "CaseList", "Catch", "CatchList", "ClassConstantDeclaration",
         "ClassConstantDeclarationList", "ClassDeclaration", "ClassStatementList",
         "ConstantDeclaration", "ConstantDeclarationList", "DoWhile", "Finally", "For",
         "Foreach", "FunctionDeclaration", "If", "IfList", "InnerStatementList",
         "InterfaceDeclaration", "MethodDeclaration", "Name", "NameList", "Namespace",
         "NamespaceName", "Parameter", "ParameterList", "PropertyDeclaration",
         "PropertyDeclarationList", "Switch", "TopStatementList", "TraitDeclaration",
         "Try", "TypeExpression", "UseTrait", "While"}

\* one call of the visitor: the node without its children, and their number
Visit(method, node) ==
    [call |-> method, type |-> node.type, flag |-> node.flag, text |-> node.text,
     doc |-> node.doc, length |-> Len(node.children)]

RECURSIVE Flatten(_)
Flatten(seqs) == IF seqs = <<>> THEN <<>> ELSE Head(seqs) \o Flatten(Tail(seqs))

RECURSIVE Traverse(_)
\* Tree.traverse(visitor): preOrder, the children if shouldDescend says so,
\* postOrder
Traverse(node) ==
    <<Visit("preOrder", node)>>
    \o (IF ShouldDescend(node)
        THEN Flatten([i \in 1..Len(node.children) |-> Traverse(node.children[i])])
        ELSE <<>>)
    \o <<Visit("postOrder", node)>>

\* NameResolver.resolveRelative and resolveNotFullyQualified for a class
\* name: the import table holds `use C\D as E` or nothing
ImportAlias == "E"
ImportTarget == <<"C", "D">>
ResolveRelative(p, name) ==
    IF p.namespace = <<>> THEN name ELSE p.namespace \o name
ResolveNotFullyQualified(p, name) ==
    IF p.imports /\ Head(name) = ImportAlias
    THEN ImportTarget \o Tail(name)
    ELSE ResolveRelative(p, name)

\* util.popMany(array, count): the last count elements in their order, and
\* what is left; a pop of an empty array gives undefined
PopMany(st, count) ==
    LET k == IF count <= Len(st) THEN count ELSE Len(st)
    IN  [popped |-> [i \in 1..(count - k) |-> VUndefined]
                        \o SubSeq(st, Len(st) - k + 1, Len(st)),
         rest |-> SubSeq(st, 1, Len(st) - k)]

RECURSIVE JoinParts(_)
\* Array.prototype.join('\\') of strings, null and undefined: null and
\* undefined join as the empty string
JoinParts(values) ==
    IF values = <<>> THEN <<>>
    ELSE (IF Head(values).t = "string" THEN Head(values).s ELSE EmptyString)
         \o JoinParts(Tail(values))
Join(values) == IF values = <<>> THEN EmptyString ELSE JoinParts(values)
Joinable(values) ==
    \A i \in 1..Len(values) : values[i].t \in {"string", "null", "undefined"}

\* _filterNull (lines 427-436)
FilterNull(values) == SelectSeq(values, LAMBDA v : v.t # "null")

\* the parts of a value that is a string
StringParts(v) == CASE v.t = "string" -> v.s

\* what a handler leaves: [status, stack, root], status "returned" or
\* "TypeError"
Handled(st, root) == [status |-> "returned", stack |-> st, root |-> root]
Thrown(st, root) == [status |-> "TypeError", stack |-> st, root |-> root]

\* _postOrderName (lines 438-459)
PostOrderName(p, v, st, root) ==
    LET nsName == IF st = <<>> THEN VUndefined ELSE st[Len(st)]
        rest == IF st = <<>> THEN st ELSE SubSeq(st, 1, Len(st) - 1)
    IN  IF ~Truthy(nsName) THEN Handled(Append(rest, VNull), root)
        ELSE IF v.flag = "NameFullyQualified" THEN Handled(Append(rest, nsName), root)
        ELSE IF v.flag = "NameRelative"
        THEN Handled(Append(rest, VString(ResolveRelative(p, StringParts(nsName)))), root)
        ELSE IF v.flag = "NameNotFullyQualified"
        THEN Handled(Append(rest, VString(ResolveNotFullyQualified(p, StringParts(nsName)))),
                     root)
        ELSE Handled(rest, root)

\* _postOrderUseTrait (lines 402-408)
PostOrderUseTrait(st, root) ==
    LET pm == PopMany(st, 2)
    IN  Handled(Append(pm.rest, pm.popped[1]), root)

\* _postOrderParameter (lines 410-425)
PostOrderParameter(st, root) ==
    LET pm == PopMany(st, 3)
        type == pm.popped[1]
        name == pm.popped[2]
    IN  IF ~Truthy(name) THEN Handled(Append(pm.rest, VNull), root)
        ELSE Handled(Append(pm.rest,
                            VTree([NewPhpSymbol("Parameter", StringParts(name)) EXCEPT
                                      !.type = TypeStringOf(type)])),
                     root)

\* _postOrderNamespace (lines 719-731)
PostOrderNamespace(st, root) ==
    LET pm == PopMany(st, 2)
        name == pm.popped[1]
    IN  IF Truthy(name)
        THEN Handled(pm.rest, Append(root, NewPhpSymbol("Namespace", StringParts(name))))
        ELSE Handled(pm.rest, root)

Public == "Public"
ReadOnly == "ReadOnly"
WriteOnly == "WriteOnly"

\* _nonTerminalFlagToSymbolModifier (lines 777-805) of one modifier flag
NonTerminalFlagToSymbolModifier(flag) ==
    IF flag = "ModifierFinal" THEN {"Final"}
    ELSE IF flag = "ModifierAbstract" THEN {"Abstract"}
    ELSE IF flag = "ModifierPrivate" THEN {Private}
    ELSE IF flag = "ModifierProtected" THEN {"Protected"}
    ELSE IF flag = "ModifierPublic" THEN {Public}
    ELSE IF flag = "ModifierStatic" THEN {"Static"}
    ELSE {}

\* a value that is an object with a value property: a Tree<PhpSymbol>
IsTree(v) == v.t = "tree"

RECURSIVE AddParameters(_, _)
\* the loop of _assignFunctionOrMethodParameters over an array (lines
\* 676-683): a falsy element is skipped, and param.value of a string or of
\* an array is undefined
AddParameters(children, items) ==
    IF items = <<>> THEN [status |-> "returned", children |-> children]
    ELSE IF ~Truthy(Head(items)) THEN AddParameters(children, Tail(items))
    ELSE IF IsTree(Head(items))
    THEN AddParameters(Append(children, Head(items).sym), Tail(items))
    ELSE [status |-> "TypeError", children |-> children]

\* _assignFunctionOrMethodParameters (lines 673-685): params.length of
\* null throws, that of a string counts its characters and that of a tree
\* is undefined
AssignFunctionOrMethodParameters(params) ==
    IF params.t \in {"null", "undefined"} THEN [status |-> "TypeError", children |-> <<>>]
    ELSE IF params.t = "string"
    THEN [status |-> IF params.s = EmptyString THEN "returned" ELSE "TypeError",
          children |-> <<>>]
    ELSE IF params.t = "tree" THEN [status |-> "returned", children |-> <<>>]
    ELSE AddParameters(<<>>, params.items)

\* the names of tags
AtProperty == <<"@", "p", "r", "o", "p", "e", "r", "t", "y">>
AtPropertyRead == AtProperty \o <<"-", "r", "e", "a", "d">>
AtPropertyWrite == AtProperty \o <<"-", "w", "r", "i", "t", "e">>
AtMethod == <<"@", "m", "e", "t", "h", "o", "d">>
AtParam == <<"@", "p", "a", "r", "a", "m">>
AtReturn == <<"@", "r", "e", "t", "u", "r", "n">>
AtVar == <<"@", "v", "a", "r">>
AtAuthor == <<"@", "a", "u", "t", "h", "o", "r">>

\* String.prototype.indexOf: the first place, from 0, at which the string
\* holds the other, -1 when it does not
IndexOf(string, other) ==
    LET places == {i \in 0..(Len(string) - Len(other)) :
                      SubSeq(string, i + 1, i + Len(other)) = other}
    IN  IF places = {} THEN -1
        ELSE CHOOSE i \in places : \A j \in places : i <= j

\* paramMap[tag.name] (lines 698-702, 707): the last parameter of the name,
\* 0 when there is none
ParamOfName(children, name) ==
    LET places == {i \in 1..Len(children) : children[i].name = <<name>>}
    IN  IF places = {} THEN 0
        ELSE CHOOSE i \in places : \A j \in places : i >= j

RECURSIVE AssignTags(_, _)
\* the loop over the tags (lines 704-715): the type of a @param tag goes
\* to the parameter of its name, that of a @return tag to the symbol
AssignTags(s, tags) ==
    IF tags = <<>> THEN s
    ELSE LET tag == Head(tags)
             k == ParamOfName(s.children, tag.name)
         IN  IF tag.tagName = AtParam
             THEN AssignTags(IF k = 0 THEN s
                             ELSE [s EXCEPT !.children[k].type =
                                                MergeOrNew(@, <<tag.typeString>>)],
                             Tail(tags))
             ELSE IF tag.tagName = AtReturn
             THEN AssignTags([s EXCEPT !.type = MergeOrNew(@, <<tag.typeString>>)],
                             Tail(tags))
             ELSE AssignTags(s, Tail(tags))

\* _assignFunctionOrMethodPhpDoc (lines 687-717) of the symbol s, whose
\* children are the parameters assigned: [status, sym], with no symbol
\* when it throws.  params.length of null throws, and params[n].value.name
\* is read of every element (lines 698-702)
AssignFunctionOrMethodPhpDoc(s, params, doc) ==
    IF ~doc.present THEN [status |-> "returned", sym |-> s]
    ELSE IF \/ params.t \in {"null", "undefined"}
            \/ params.t = "string" /\ params.s # EmptyString
            \/ params.t = "array" /\ \E i \in 1..Len(params.items) : ~IsTree(params.items[i])
    THEN [status |-> "TypeError", sym |-> NoSymbol]
    ELSE [status |-> "returned", sym |-> AssignTags(s, doc.tags)]

\* a tag of a parsed doc comment (PhpDocParser): typeString of a TypeTag,
\* returnTypeString and parameters of a MethodTag
TagOf(tagName, name, typeString) ==
    [tagName |-> tagName, name |-> name, typeString |-> typeString,
     returnTypeString |-> "", parameters |-> <<>>]
MethodTagOf(name, returnTypeString, parameters) ==
    [tagName |-> AtMethod, name |-> name, typeString |-> "",
     returnTypeString |-> returnTypeString, parameters |-> parameters]

\* tag.tagName.indexOf('@property') !== -1 (line 768)
HasPropertyInName(tagName) == IndexOf(tagName, AtProperty) # -1

\* _propertyTagToTreeSymbol with the modifiers of @property-read left out
PropertyTagToTreeSymbolPlain(tag) ==
    [NewPhpSymbol("Property", <<tag.name>>) EXCEPT
        !.modifiers = {Public, Magic}
                      \cup (IF tag.tagName = AtPropertyWrite THEN {WriteOnly} ELSE {}),
        !.type = NewTypeString(<<tag.typeString>>)]

\* _propertyTagToTreeSymbol (lines 807-821)
PropertyTagToTreeSymbol(tag) ==
    [NewPhpSymbol("Property", <<tag.name>>) EXCEPT
        !.modifiers = {Public, Magic}
                      \cup (IF tag.tagName = AtPropertyWrite THEN {WriteOnly}
                            ELSE IF tag.tagName = AtPropertyRead THEN {ReadOnly}
                            ELSE {}),
        !.type = NewTypeString(<<tag.typeString>>)]

\* _methodTagParamToSymbol (lines 837-843)
MethodTagParamToSymbol(param) ==
    [NewPhpSymbol("Parameter", <<param.name>>) EXCEPT
        !.type = NewTypeString(<<param.typeString>>)]

\* _methodTagToTreeSymbol (lines 823-835)
MethodTagToTreeSymbol(tag) ==
    [NewPhpSymbol("Method", <<tag.name>>) EXCEPT
        !.modifiers = {Public, Magic},
        !.type = NewTypeString(<<tag.returnTypeString>>),
        !.children = [k \in 1..Len(tag.parameters) |->
                         MethodTagParamToSymbol(tag.parameters[k])]]

RECURSIVE AddClassMagicMembers(_, _)
\* _addClassMagicMembers (lines 763-775)
AddClassMagicMembers(s, tags) ==
    IF tags = <<>> THEN s
    ELSE IF HasPropertyInName(Head(tags).tagName)
    THEN AddClassMagicMembers(
             [s EXCEPT !.children = Append(@, PropertyTagToTreeSymbol(Head(tags)))],
             Tail(tags))
    ELSE IF Head(tags).tagName = AtMethod
    THEN AddClassMagicMembers(
             [s EXCEPT !.children = Append(@, MethodTagToTreeSymbol(Head(tags)))],
             Tail(tags))
    ELSE AddClassMagicMembers(s, Tail(tags))

\* _assignClassPhpDoc (lines 611-620)
AssignClassPhpDoc(s, doc) ==
    IF ~doc.present THEN s ELSE AddClassMagicMembers(s, doc.tags)

\* the body loop over an element of the body that is an array (lines
\* 581-602): the names of used traits when its first element is a string,
\* else constants and properties, of which value.scope is written
ClassBodyArray(s, child) ==
    IF child = <<>> THEN [status |-> "returned", sym |-> s]
    ELSE IF child[1].t = "string"
    THEN [status |-> "returned",
          sym |-> [s EXCEPT !.associated =
                       @ \o [k \in 1..Len(child) |-> StringParts(child[k])]]]
    ELSE IF \A k \in 1..Len(child) : IsTree(child[k])
    THEN [status |-> "returned",
          sym |-> [s EXCEPT !.children =
                       @ \o [k \in 1..Len(child) |-> child[k].sym]]]
    ELSE [status |-> "TypeError", sym |-> s]

RECURSIVE ClassBodyLoop(_, _)
\* the loop of _assignClassBody (lines 578-608): an element that is not an
\* array is a method, of which value.scope is written
ClassBodyLoop(s, body) ==
    IF body = <<>> THEN [status |-> "returned", sym |-> s]
    ELSE IF Head(body).t = "array"
    THEN LET r == ClassBodyArray(s, Head(body).items)
         IN  IF r.status = "TypeError" THEN r ELSE ClassBodyLoop(r.sym, Tail(body))
    ELSE IF IsTree(Head(body))
    THEN ClassBodyLoop([s EXCEPT !.children = Append(@, Head(body).sym)], Tail(body))
    ELSE [status |-> "TypeError", sym |-> s]

\* _assignClassBody (lines 570-609): a falsy body is left alone, the
\* characters of a string have no value and a tree has no length
AssignClassBody(s, body) ==
    IF ~Truthy(body) \/ IsTree(body) THEN [status |-> "returned", sym |-> s]
    ELSE IF body.t = "string" THEN [status |-> "TypeError", sym |-> s]
    ELSE ClassBodyLoop(s, body.items)

\* implementsInterfaces && implementsInterfaces.length (line 744)
HasLength(v) ==
    \/ v.t = "array" /\ v.items # <<>>
    \/ v.t = "string" /\ v.s # EmptyString

\* lines 744-752: Array.prototype.push.apply throws on a string, and takes
\* nothing from a tree
ClassAssociated(extendsClass, implementsInterfaces) ==
    IF Truthy(extendsClass) \/ HasLength(implementsInterfaces)
    THEN (IF Truthy(extendsClass) THEN <<StringParts(extendsClass)>> ELSE <<>>)
         \o (IF implementsInterfaces.t = "array"
             THEN [k \in 1..Len(implementsInterfaces.items) |->
                      StringParts(implementsInterfaces.items[k])]
             ELSE <<>>)
    ELSE <<>>
ClassAssociatedThrows(extendsClass, implementsInterfaces) ==
    /\ Truthy(extendsClass) \/ HasLength(implementsInterfaces)
    /\ implementsInterfaces.t = "string"
    /\ implementsInterfaces.s # EmptyString

\* _postOrderClassDeclaration (lines 733-761)
PostOrderClassDeclaration(p, v, st, root) ==
    LET pm == PopMany(st, 4)
        name == pm.popped[1]
        extendsClass == pm.popped[2]
        implementsInterfaces == pm.popped[3]
        body == pm.popped[4]
        s == [NewPhpSymbol(Class, ResolveRelative(p, StringParts(name))) EXCEPT
                 !.associated = ClassAssociated(extendsClass, implementsInterfaces),
                 !.modifiers = NonTerminalFlagToSymbolModifier(v.flag)]
    IN  IF ~Truthy(name) THEN Handled(pm.rest, root)
        ELSE IF ClassAssociatedThrows(extendsClass, implementsInterfaces)
        THEN Thrown(pm.rest, root)
        ELSE IF AssignClassBody(s, body).status = "TypeError" THEN Thrown(pm.rest, root)
        ELSE Handled(pm.rest,
                     Append(root, AssignClassPhpDoc(AssignClassBody(s, body).sym, v.doc)))

\* _postOrderInterfaceDeclaration (lines 461-476): the extends list is
\* popped and not used
PostOrderInterfaceDeclaration(p, v, st, root) ==
    LET pm == PopMany(st, 3)
        name == pm.popped[1]
        body == pm.popped[3]
        s == NewPhpSymbol(Interface, ResolveRelative(p, StringParts(name)))
    IN  IF ~Truthy(name) THEN Handled(pm.rest, root)
        ELSE IF AssignClassBody(s, body).status = "TypeError" THEN Thrown(pm.rest, root)
        ELSE Handled(pm.rest,
                     Append(root, AssignClassPhpDoc(AssignClassBody(s, body).sym, v.doc)))

\* _postOrderTraitDeclaration (lines 478-494)
PostOrderTraitDeclaration(p, v, st, root) ==
    LET pm == PopMany(st, 2)
        name == pm.popped[1]
        body == pm.popped[2]
        s == NewPhpSymbol(Trait, ResolveRelative(p, StringParts(name)))
    IN  IF ~Truthy(name) THEN Handled(pm.rest, root)
        ELSE IF AssignClassBody(s, body).status = "TypeError" THEN Thrown(pm.rest, root)
        ELSE Handled(pm.rest,
                     Append(root, AssignClassPhpDoc(AssignClassBody(s, body).sym, v.doc)))

\* _postOrderPropertyOrClassConstantDeclaration (lines 496-508)
PostOrderPropertyOrClassConstantDeclaration(kind, st, root) ==
    LET pm == PopMany(st, 2)
        name == pm.popped[1]
    IN  IF ~Truthy(name) THEN Handled(Append(pm.rest, VNull), root)
        ELSE Handled(Append(pm.rest, VTree(NewPhpSymbol(kind, StringParts(name)))), root)

\* _assignPropertyPhpDoc (lines 532-547): the first @var tag without a
\* name, or of the name of the symbol, gives the type
AssignPropertyPhpDoc(s, doc) ==
    LET places == {i \in 1..Len(doc.tags) :
                      /\ doc.tags[i].tagName = AtVar
                      /\ doc.tags[i].name = "" \/ <<doc.tags[i].name>> = s.name}
        first == CHOOSE i \in places : \A j \in places : i <= j
    IN  IF ~doc.present \/ places = {} THEN s
        ELSE [s EXCEPT !.type = NewTypeString(<<doc.tags[first].typeString>>)]

\* _postOrderPropertyOrClassConstantDeclarationStatement (lines 510-530):
\* the falsy elements are left out, and value.modifiers of a string or of
\* an array is written of undefined
PostOrderPropertyOrClassConstantDeclarationStatement(v, st, root) ==
    LET pm == PopMany(st, v.length)
        modifiers == NonTerminalFlagToSymbolModifier(v.flag)
        props == SelectSeq(pm.popped, Truthy)
    IN  IF \E i \in 1..Len(props) : ~IsTree(props[i]) THEN Thrown(pm.rest, root)
        ELSE Handled(Append(pm.rest,
                            VArray([i \in 1..Len(props) |->
                                       VTree(AssignPropertyPhpDoc(
                                                 [props[i].sym EXCEPT !.modifiers = modifiers],
                                                 v.doc))])),
                     root)

\* _postOrderConstantDeclaration (lines 549-562)
PostOrderConstantDeclaration(p, st, root) ==
    LET pm == PopMany(st, 2)
        name == pm.popped[1]
    IN  IF ~Truthy(name) THEN Handled(Append(pm.rest, VNull), root)
        ELSE Handled(pm.rest,
                     Append(root, NewPhpSymbol("Constant",
                                               ResolveRelative(p, StringParts(name)))))

\* lines 636-641 and 660-665: the symbol with its return type, then its
\* parameters, then the types of its doc comment: [status, sym], with no
\* symbol when it throws
FunctionOrMethod(s, params, returnType, doc) ==
    LET assigned == AssignFunctionOrMethodParameters(params)
        built == [s EXCEPT !.type = IF Truthy(returnType) THEN TypeStringOf(returnType)
                                    ELSE @,
                           !.children = assigned.children]
    IN  IF assigned.status = "TypeError" THEN [status |-> "TypeError", sym |-> NoSymbol]
        ELSE AssignFunctionOrMethodPhpDoc(built, params, doc)

\* _postOrderFunctionDeclaration (lines 647-669)
PostOrderFunctionDeclaration(p, v, st, root) ==
    LET pm == PopMany(st, 4)
        name == pm.popped[1]
        f == FunctionOrMethod(NewPhpSymbol("Function", ResolveRelative(p, StringParts(name))),
                              pm.popped[2], pm.popped[3], v.doc)
    IN  IF ~Truthy(name) THEN Handled(pm.rest, root)
        ELSE IF f.status = "TypeError" THEN Thrown(pm.rest, root)
        ELSE Handled(pm.rest, Append(root, f.sym))

\* _postOrderMethodDeclaration (lines 622-645)
PostOrderMethodDeclaration(v, st, root) ==
    LET pm == PopMany(st, 4)
        name == pm.popped[1]
        f == FunctionOrMethod([NewPhpSymbol("Method", StringParts(name)) EXCEPT
                                  !.modifiers = NonTerminalFlagToSymbolModifier(v.flag)],
                              pm.popped[2], pm.popped[3], v.doc)
    IN  IF ~Truthy(name) THEN Handled(Append(pm.rest, VNull), root)
        ELSE IF f.status = "TypeError" THEN Thrown(pm.rest, root)
        ELSE Handled(Append(pm.rest, VTree(f.sym)), root)

(***************************************************************************)
(* The sources read and their parse trees (php7parser): a child that is    *)
(* absent from the source is a node whose value is null.                   *)
(***************************************************************************)
\* the most tags a doc comment holds, and the most parameters a declaration
MaxTags == 2
MaxParams == 2

ClassTags ==
    {TagOf(AtProperty, "$x", "string"), TagOf(AtPropertyRead, "$y", "int"),
     TagOf(AtPropertyWrite, "$z", "bool"),
     TagOf(AtProperty \o <<"x">>, "$w", "float"),
     MethodTagOf("m", "string", <<[name |-> "$a", typeString |-> "int"]>>),
     TagOf(AtAuthor, "", "")}

\* the tags of the doc comment of a function or method, and of a property
FunctionTags ==
    {<<>>, <<TagOf(AtParam, "$a", "string"), TagOf(AtReturn, "", "int")>>,
     <<TagOf(AtAuthor, "", "")>>}
PropertyTags == {<<>>, <<TagOf(AtVar, "", "int")>>, <<TagOf(AtVar, "$q", "int")>>}

\* a parameter: its name ("" when it has none), whether it has a type and
\* whether it has a default value
ParamOf(name, typed, default) == [name |-> name, typed |-> typed, default |-> default]
ParamShapes ==
    {ParamOf("", FALSE, FALSE), ParamOf("", TRUE, FALSE), ParamOf("$a", FALSE, FALSE),
     ParamOf("$a", TRUE, FALSE), ParamOf("$a", TRUE, TRUE)}

NamespaceShapes ==
    {[namespace |-> <<>>, braced |-> FALSE], [namespace |-> <<"A", "B">>, braced |-> FALSE],
     [namespace |-> <<"A", "B">>, braced |-> TRUE]}

\* class F, with its parents and the traits it uses
ClassPrograms ==
    {[NoProgram EXCEPT !.decl = "class", !.namespace = ns.namespace, !.braced = ns.braced,
                       !.imports = imports, !.name = "F", !.extends = extends,
                       !.implements = implements, !.traits = traits] :
        ns \in NamespaceShapes, imports \in BOOLEAN,
        extends \in {<<>>, <<"G">>, <<"E", "G">>},
        implements \in {<<>>, <<<<"J">>>>, <<<<"J">>, <<"K">>>>},
        traits \in {"none", "use", "adapted"}}

\* class F extends E\G with a doc comment
DocumentedPrograms ==
    {[NoProgram EXCEPT !.decl = "class", !.namespace = ns.namespace, !.braced = ns.braced,
                       !.imports = TRUE, !.name = "F", !.extends = <<"E", "G">>,
                       !.implements = implements, !.doc = TRUE, !.tags = tags] :
        ns \in NamespaceShapes, implements \in {<<<<"J">>>>, <<<<"J">>, <<"K">>>>},
        tags \in SeqsUpTo(ClassTags, MaxTags)}

\* function f, or method f of class F extends E\G implements J
FunctionPrograms ==
    {[NoProgram EXCEPT !.decl = decl, !.namespace = ns.namespace, !.braced = ns.braced,
                       !.name = "f", !.extends = <<"E", "G">>,
                       !.implements = <<<<"J">>>>, !.doc = doc.present, !.tags = doc.tags,
                       !.params = params, !.returnType = returnType] :
        decl \in {"function", "method"},
        ns \in {x \in NamespaceShapes : x.braced = (x.namespace # <<>>)},
        doc \in {NoDoc} \cup {DocOf(tags) : tags \in FunctionTags},
        params \in SeqsUpTo(ParamShapes, MaxParams),
        returnType \in {<<>>, <<"int">>, <<"E", "G">>}}

\* class F extends G implements J, or trait T, with properties and
\* constants; and the constant C of the source
MemberShapes ==
    {[member |-> member, doc |-> doc, value |-> value] :
        member \in {"property", "constant"},
        doc \in {NoDoc} \cup {DocOf(tags) : tags \in PropertyTags},
        value \in BOOLEAN}
MemberPrograms ==
    {[NoProgram EXCEPT !.decl = decl, !.name = IF decl = "trait" THEN "T" ELSE "F",
                       !.extends = <<"G">>, !.implements = <<<<"J">>>>,
                       !.members = members] :
        decl \in {"class", "trait"}, members \in SeqsUpTo(MemberShapes, 1)}
ConstantPrograms ==
    {[NoProgram EXCEPT !.decl = "const", !.namespace = ns.namespace,
                       !.braced = ns.braced, !.name = "C"] :
        ns \in {x \in NamespaceShapes : x.braced = (x.namespace # <<>>)}}

\* interface I extends the interfaces of the list
InterfacePrograms ==
    {[NoProgram EXCEPT !.decl = "interface", !.namespace = ns.namespace,
                       !.braced = ns.braced, !.imports = imports, !.name = "I",
                       !.implements = parents] :
        ns \in NamespaceShapes, imports \in BOOLEAN,
        parents \in {<<>>, <<<<"J">>>>, <<<<"J">>, <<"K">>>>}}

Programs == ClassPrograms \cup DocumentedPrograms \cup FunctionPrograms
            \cup InterfacePrograms \cup MemberPrograms \cup ConstantPrograms

NameNode(parts) ==
    TreeNode("Name", "NameNotFullyQualified", "", NoDoc,
             <<Phrase("NamespaceName", [i \in 1..Len(parts) |-> Token(parts[i])])>>)
OptionalName(parts) == IF parts = <<>> THEN NullNode ELSE NameNode(parts)
OptionalType(parts) ==
    IF parts = <<>> THEN NullNode ELSE Phrase("TypeExpression", <<NameNode(parts)>>)
NameListNode(names) == Phrase("NameList", [i \in 1..Len(names) |-> NameNode(names[i])])

ParameterNode(q) ==
    Phrase("Parameter",
           <<IF q.typed THEN OptionalType(<<"int">>) ELSE NullNode,
             IF q.name = "" THEN NullNode ELSE Token(q.name),
             IF q.default THEN Phrase("Scalar", <<>>) ELSE NullNode>>)

\* function f(params): returnType {} and the method of the same shape
FunctionNode(type, p) ==
    TreeNode(type, "", "", IF p.doc THEN DocOf(p.tags) ELSE NoDoc,
             <<Token(p.name),
               Phrase("ParameterList", [i \in 1..Len(p.params) |-> ParameterNode(p.params[i])]),
               OptionalType(p.returnType),
               Phrase("Block", <<>>)>>)

UseTraitNode(p) ==
    Phrase("UseTrait",
           <<NameListNode(<<<<"T">>>>),
             IF p.traits = "adapted" THEN Phrase("TraitAdaptationList", <<>>) ELSE NullNode>>)

\* public $p = 1; or const K = 1; with its doc comment, the value there
\* or not
MemberNode(m) ==
    TreeNode(IF m.member = "property" THEN "PropertyDeclarationList"
             ELSE "ClassConstantDeclarationList",
             "ModifierPublic", "", m.doc,
             <<Phrase(IF m.member = "property" THEN "PropertyDeclaration"
                      ELSE "ClassConstantDeclaration",
                      <<Token(IF m.member = "property" THEN "$p" ELSE "K"),
                        IF m.value THEN Phrase("Scalar", <<>>) ELSE NullNode>>)>>)

ClassNode(p) ==
    TreeNode("ClassDeclaration", "", "",
             IF p.decl = "class" /\ p.doc THEN DocOf(p.tags) ELSE NoDoc,
             <<Token("F"),
               OptionalName(p.extends),
               IF p.implements = <<>> THEN NullNode ELSE NameListNode(p.implements),
               Phrase("ClassStatementList",
                      (IF p.traits = "none" THEN <<>> ELSE <<UseTraitNode(p)>>)
                      \o (IF p.decl = "method"
                          THEN <<FunctionNode("MethodDeclaration", p)>> ELSE <<>>)
                      \o [i \in 1..Len(p.members) |-> MemberNode(p.members[i])])>>)

TraitNode(p) ==
    Phrase("TraitDeclaration",
           <<Token(p.name),
             Phrase("ClassStatementList",
                    [i \in 1..Len(p.members) |-> MemberNode(p.members[i])])>>)

\* const C = 1;
ConstantNode(p) ==
    Phrase("ConstantDeclarationList",
           <<Phrase("ConstantDeclaration", <<Token(p.name), Phrase("Scalar", <<>>)>>)>>)

InterfaceNode(p) ==
    Phrase("InterfaceDeclaration",
           <<Token(p.name),
             IF p.implements = <<>> THEN NullNode ELSE NameListNode(p.implements),
             Phrase("ClassStatementList", <<>>)>>)

DeclarationNode(p) ==
    IF p.decl = "function" THEN FunctionNode("FunctionDeclaration", p)
    ELSE IF p.decl = "interface" THEN InterfaceNode(p)
    ELSE IF p.decl = "trait" THEN TraitNode(p)
    ELSE IF p.decl = "const" THEN ConstantNode(p)
    ELSE ClassNode(p)

\* the statements of the source: the use declaration, then the declaration
StatementsOf(p) ==
    (IF p.imports THEN <<Phrase("UseStatement", <<>>)>> ELSE <<>>) \o <<DeclarationNode(p)>>

TreeOf(p) ==
    IF p.namespace = <<>> THEN Phrase("TopStatementList", StatementsOf(p))
    ELSE IF p.braced
    THEN Phrase("TopStatementList",
                <<Phrase("Namespace",
                         <<Phrase("NamespaceName",
                                  [i \in 1..Len(p.namespace) |-> Token(p.namespace[i])]),
                           Phrase("TopStatementList", StatementsOf(p))>>)>>)
    ELSE Phrase("TopStatementList",
                <<Phrase("Namespace",
                         <<Phrase("NamespaceName",
                                  [i \in 1..Len(p.namespace) |-> Token(p.namespace[i])]),
                           NullNode>>)>>
                \o StatementsOf(p))

(***************************************************************************)
(* The traversal of a source by a new SymbolReader.                        *)
(***************************************************************************)
InitReader ==
    /\ NoAggregate
    /\ NoDocuments
    /\ NoReader
    /\ NoResolver
    /\ NoFormatter

\* the case labels of the switch of postOrder (lines 280-340)
SwitchTypes ==
    {"NamespaceName", "Namespace", "Name", "NameList", "FunctionDeclaration",
     "ClassDeclaration", "TraitDeclaration", "InterfaceDeclaration",
     "ClassConstantDeclarationList", "PropertyDeclarationList", "PropertyDeclaration",
     "ClassConstantDeclaration", "ConstantDeclarationList", "ConstantDeclaration",
     "MethodDeclaration", "ClassStatementList", "UseTrait", "Parameter", "ParameterList",
     "TypeExpression"}

\* new SymbolReader(...) and tree.traverse(reader): a reader reads one
\* source
Read(p) ==
    /\ program = NoProgram
    /\ nodes = <<>>
    /\ nodes' = Traverse(TreeOf(p))
    /\ stack' = <<>>
    /\ active' = 0
    /\ symbolTreeRoot' = <<>>
    /\ program' = p
    /\ answer' = [NoAnswer EXCEPT !.op = "read", !.status = "reading"]
    /\ UNCHANGED <<aggVars, documents, documentStore, symbolTables, resolver, formatter>>

\* the visit made next
Visiting(method) == nodes # <<>> /\ Head(nodes).call = method

\* the traversal goes on to the next visit, or ends with it
Visited ==
    /\ nodes' = Tail(nodes)
    /\ answer' = [answer EXCEPT !.status = IF Tail(nodes) = <<>> THEN "returned" ELSE @]
    /\ UNCHANGED <<aggVars, documents, documentStore, symbolTables, program, resolver, formatter>>

\* a handler has run: what it throws ends the traversal
Leaves(h) ==
    /\ stack' = h.stack
    /\ symbolTreeRoot' = h.root
    /\ nodes' = IF h.status = "TypeError" THEN <<>> ELSE Tail(nodes)
    /\ answer' = [answer EXCEPT !.status = IF h.status = "TypeError" THEN "TypeError"
                                           ELSE IF Tail(nodes) = <<>> THEN "returned"
                                           ELSE @]
    /\ UNCHANGED <<aggVars, documents, documentStore, symbolTables, program, resolver, formatter>>

\* postOrder of an active reader visits a node of this type
PostOrderOf(types) ==
    /\ Visiting("postOrder")
    /\ active >= 1
    /\ Head(nodes).type \in types

\* preOrder (lines 248-267)
PreOrder ==
    /\ Visiting("preOrder")
    /\ active' = IF Head(nodes).type \in
                      {"Namespace", "FunctionDeclaration", "ClassDeclaration",
                       "TraitDeclaration", "InterfaceDeclaration", "ConstantDeclarationList"}
                  THEN active + 1 ELSE active
    /\ Visited
    /\ UNCHANGED <<stack, symbolTreeRoot>>

\* postOrder, lines 271-273
PostOrderInactive ==
    /\ Visiting("postOrder")
    /\ active < 1
    /\ Visited
    /\ UNCHANGED <<stack, active, symbolTreeRoot>>

\* postOrder of a node whose value is null (lines 275-279): null is pushed,
\* and the switch reads nonTerminalType of null
PostOrderNull ==
    /\ PostOrderOf({"null"})
    /\ Leaves(Thrown(Append(stack, VNull), symbolTreeRoot))
    /\ UNCHANGED active

\* postOrder, case undefined (lines 343-348): the text of the token is
\* pushed, and with no break the default case pushes null
PostOrderToken ==
    /\ PostOrderOf({"Token"})
    /\ Leaves(Handled(stack \o <<VString(<<Head(nodes).text>>), VNull>>, symbolTreeRoot))
    /\ UNCHANGED active

\* postOrder, lines 346-348
PostOrderDefault ==
    /\ Visiting("postOrder")
    /\ active >= 1
    /\ Head(nodes).type \notin SwitchTypes \cup {"Token", "null"}
    /\ Leaves(Handled(Append(stack, VNull), symbolTreeRoot))
    /\ UNCHANGED active

\* postOrder, case NamespaceName (lines 280-282)
PostOrderNamespaceName ==
    /\ PostOrderOf({"NamespaceName"})
    /\ LET pm == PopMany(stack, Head(nodes).length)
       IN  /\ Joinable(pm.popped)
           /\ Leaves(Handled(Append(pm.rest, VString(Join(pm.popped))), symbolTreeRoot))
    /\ UNCHANGED active

\* postOrder, lines 283-286
PostOrderNamespaceStep ==
    /\ PostOrderOf({"Namespace"})
    /\ Leaves(PostOrderNamespace(stack, symbolTreeRoot))
    /\ active' = active - 1

\* postOrder, lines 287-289
PostOrderNameStep ==
    /\ PostOrderOf({"Name"})
    /\ Leaves(PostOrderName(program, Head(nodes), stack, symbolTreeRoot))
    /\ UNCHANGED active

\* postOrder, case NameList (lines 290-292)
PostOrderNameList ==
    /\ PostOrderOf({"NameList"})
    /\ LET pm == PopMany(stack, Head(nodes).length)
       IN  Leaves(Handled(Append(pm.rest, VArray(FilterNull(pm.popped))), symbolTreeRoot))
    /\ UNCHANGED active

\* postOrder, case ClassStatementList and case ParameterList (lines
\* 328-330, 337-339)
PostOrderList ==
    /\ PostOrderOf({"ClassStatementList", "ParameterList"})
    /\ LET pm == PopMany(stack, Head(nodes).length)
       IN  Leaves(Handled(Append(pm.rest, VArray(pm.popped)), symbolTreeRoot))
    /\ UNCHANGED active

\* postOrder, lines 331-333
PostOrderUseTraitStep ==
    /\ PostOrderOf({"UseTrait"})
    /\ Leaves(PostOrderUseTrait(stack, symbolTreeRoot))
    /\ UNCHANGED active

\* postOrder, lines 334-336
PostOrderParameterStep ==
    /\ PostOrderOf({"Parameter"})
    /\ Leaves(PostOrderParameter(stack, symbolTreeRoot))
    /\ UNCHANGED active

\* postOrder, lines 340-342
PostOrderTypeExpression ==
    /\ PostOrderOf({"TypeExpression"})
    /\ Visited
    /\ UNCHANGED <<stack, active, symbolTreeRoot>>

\* postOrder, lines 293-296: a handler that throws leaves _active as it is
PostOrderFunctionDeclarationStep ==
    /\ PostOrderOf({"FunctionDeclaration"})
    /\ LET h == PostOrderFunctionDeclaration(program, Head(nodes), stack, symbolTreeRoot)
       IN  /\ Leaves(h)
           /\ active' = IF h.status = "TypeError" THEN active ELSE active - 1

\* postOrder, lines 325-327
PostOrderMethodDeclarationStep ==
    /\ PostOrderOf({"MethodDeclaration"})
    /\ Leaves(PostOrderMethodDeclaration(Head(nodes), stack, symbolTreeRoot))
    /\ UNCHANGED active

\* postOrder, lines 297-300
PostOrderClassDeclarationStep ==
    /\ PostOrderOf({"ClassDeclaration"})
    /\ LET h == PostOrderClassDeclaration(program, Head(nodes), stack, symbolTreeRoot)
       IN  /\ Leaves(h)
           /\ active' = IF h.status = "TypeError" THEN active ELSE active - 1

\* postOrder, lines 305-308
PostOrderInterfaceDeclarationStep ==
    /\ PostOrderOf({"InterfaceDeclaration"})
    /\ LET h == PostOrderInterfaceDeclaration(program, Head(nodes), stack, symbolTreeRoot)
       IN  /\ Leaves(h)
           /\ active' = IF h.status = "TypeError" THEN active ELSE active - 1

\* postOrder, lines 301-304
PostOrderTraitDeclarationStep ==
    /\ PostOrderOf({"TraitDeclaration"})
    /\ LET h == PostOrderTraitDeclaration(program, Head(nodes), stack, symbolTreeRoot)
       IN  /\ Leaves(h)
           /\ active' = IF h.status = "TypeError" THEN active ELSE active - 1

\* postOrder, lines 309-312
PostOrderPropertyOrClassConstantDeclarationStatementStep ==
    /\ PostOrderOf({"ClassConstantDeclarationList", "PropertyDeclarationList"})
    /\ Leaves(PostOrderPropertyOrClassConstantDeclarationStatement(
                  Head(nodes), stack, symbolTreeRoot))
    /\ UNCHANGED active

\* postOrder, lines 313-318
PostOrderPropertyOrClassConstantDeclarationStep ==
    /\ PostOrderOf({"PropertyDeclaration", "ClassConstantDeclaration"})
    /\ Leaves(PostOrderPropertyOrClassConstantDeclaration(
                  IF Head(nodes).type = "PropertyDeclaration" THEN "Property"
                  ELSE "Constant",
                  stack, symbolTreeRoot))
    /\ UNCHANGED active

\* postOrder, case ConstantDeclarationList (lines 319-321)
PostOrderConstantDeclarationList ==
    /\ PostOrderOf({"ConstantDeclarationList"})
    /\ Visited
    /\ active' = active - 1
    /\ UNCHANGED <<stack, symbolTreeRoot>>

\* postOrder, lines 322-324
PostOrderConstantDeclarationStep ==
    /\ PostOrderOf({"ConstantDeclaration"})
    /\ Leaves(PostOrderConstantDeclaration(program, stack, symbolTreeRoot))
    /\ UNCHANGED active

NextReader ==
    \/ \E p \in Programs : Read(p)
    \/ PreOrder
    \/ PostOrderInactive
    \/ PostOrderNull
    \/ PostOrderToken
    \/ PostOrderDefault
    \/ PostOrderNamespaceName
    \/ PostOrderNamespaceStep
    \/ PostOrderNameStep
    \/ PostOrderNameList
    \/ PostOrderList
    \/ PostOrderUseTraitStep
    \/ PostOrderParameterStep
    \/ PostOrderTypeExpression
    \/ PostOrderFunctionDeclarationStep
    \/ PostOrderMethodDeclarationStep
    \/ PostOrderClassDeclarationStep
    \/ PostOrderInterfaceDeclarationStep
    \/ PostOrderTraitDeclarationStep
    \/ PostOrderPropertyOrClassConstantDeclarationStatementStep
    \/ PostOrderPropertyOrClassConstantDeclarationStep
    \/ PostOrderConstantDeclarationList
    \/ PostOrderConstantDeclarationStep

SpecReader == InitReader /\ [][NextReader]_vars

(***************************************************************************)
(* The resolved variable table: a stack of frames, the scope of the source *)
(* at the bottom.  The types of a frame are pairs <<variable, class>>.     *)
(***************************************************************************)
\* the index of the topmost frame of one of the kinds, 0 when there is none
LastFrame(table, kinds) ==
    LET at == {i \in 1..Len(table) : table[i].kind \in kinds}
    IN  IF at = {} THEN 0 ELSE CHOOSE i \in at : \A j \in at : j <= i

\* the variables a set of types binds
Bound(types) == {b[1] : b \in types}

\* getType: the topmost frame that binds the variable decides
GetType(table, name) ==
    LET at == {i \in 1..Len(table) : name \in Bound(table[i].types)}
    IN  IF at = {} THEN {}
        ELSE {b[2] : b \in {c \in table[CHOOSE i \in at : \A j \in at : j <= i].types :
                                c[1] = name}}

PushScope(table) == Append(table, Frame("scope"))
PushBranchGroup(table) == Append(table, Frame("group"))
PushBranch(table) == Append(table, Frame("branch"))

\* popScope: the topmost scope goes, with what was opened in it
PopScope(table) ==
    LET i == LastFrame(table, {"scope"})
    IN  IF i = 0 THEN table ELSE SubSeq(table, 1, i - 1)

\* popBranch: the overlay of the topmost branch is committed to the branch
\* list of its group
PopBranch(table) ==
    LET b == LastFrame(table, {"branch"})
        g == LastFrame(table, {"scope", "group"})
    IN  IF b = 0 \/ g = 0 \/ b < g \/ table[g].kind # "group" THEN table
        ELSE Append(SubSeq(table, 1, g - 1),
                    [table[g] EXCEPT !.branches = Append(@, table[b].types)])

\* popBranchGroup: per variable bound in a branch, the union of its types
\* in the branches (a branch that does not bind it gives the type it had
\* before the group) is written into the enclosing frame
PopBranchGroup(table) ==
    LET g == LastFrame(table, {"scope", "group"})
    IN  IF g < 2 \/ table[g].kind # "group" THEN table
        ELSE LET below == SubSeq(table, 1, g - 1)
                 branches == table[g].branches
                 touched == UNION {Bound(branches[i]) : i \in 1..Len(branches)}
                 union(name) ==
                     UNION {IF name \in Bound(branches[i])
                            THEN {b[2] : b \in {c \in branches[i] : c[1] = name}}
                            ELSE GetType(below, name) : i \in 1..Len(branches)}
             IN  [below EXCEPT ![g - 1].types =
                     {b \in @ : b[1] \notin touched}
                     \cup UNION {{<<name, t>> : t \in union(name)} : name \in touched}]

(***************************************************************************)
(* The TypeResolver (visitors.ts 882-1112) and the sources it visits.      *)
(***************************************************************************)
\* TypeResolverMode (lines 882-884)
ResolveVariableName == "ResolveVariableName"
ResolveType == "ResolveType"

\* the most statements a source holds
MaxStatements == 2

\* `$a = new Foo();`, `f() = new Foo();`, `$a instanceof Foo;`,
\* `f() instanceof Foo;` and `f();`
SimpleStatements == {"assign", "assignCall", "instanceof", "instanceofCall", "call"}

\* function f() {...}, class F { function m() {...} }, new class {};
\* if (f()) {...}, if (f()) {...} else {}, foreach (f() as $v) {...} and
\* foreach (f() as f()->k => f()->v) {...}
CompoundStatements ==
    {"function", "method", "anonymous", "if", "ifelse", "foreach", "foreachProperty"}

Statements ==
    {[kind |-> "simple", body |-> b] : b \in SimpleStatements}
    \cup {[kind |-> k, body |-> b] : k \in CompoundStatements,
                                      b \in SimpleStatements \cup {"empty"}}

Sources == SeqsUpTo(Statements, MaxStatements) \ {<<>>}

VariableNode(name) == Phrase("Variable", <<Token(name)>>)
CallNode == Phrase("Call", <<NameNode(<<"f">>), Phrase("ArgumentList", <<>>)>>)
NewNode == Phrase("New", <<NameNode(<<"Foo">>), Phrase("ArgumentList", <<>>)>>)
PropertyNode(name) == Phrase("Property", <<CallNode, Token(name)>>)
BinaryNode(flag, lhs, rhs) == TreeNode("BinaryExpression", flag, "", NoDoc, <<lhs, rhs>>)

SimpleNode(b) ==
    CASE b = "assign" -> BinaryNode("BinaryAssign", VariableNode("$a"), NewNode)
      [] b = "assignCall" -> BinaryNode("BinaryAssign", CallNode, NewNode)
      [] b = "instanceof" ->
            BinaryNode("BinaryInstanceOf", VariableNode("$a"), NameNode(<<"Foo">>))
      [] b = "instanceofCall" -> BinaryNode("BinaryInstanceOf", CallNode, NameNode(<<"Foo">>))
      [] b = "call" -> CallNode

BlockOf(b) == Phrase("Block", IF b = "empty" THEN <<>> ELSE <<SimpleNode(b)>>)

CallableNode(type, name, b) ==
    Phrase(type, <<Token(name), Phrase("ParameterList", <<>>), NullNode, BlockOf(b)>>)

StatementNode(st) ==
    CASE st.kind = "simple" -> SimpleNode(st.body)
      [] st.kind = "function" -> CallableNode("FunctionDeclaration", "f", st.body)
      [] st.kind = "method" ->
            Phrase("ClassDeclaration",
                   <<Token("F"), NullNode, NullNode,
                     Phrase("ClassStatementList",
                            <<CallableNode("MethodDeclaration", "m", st.body)>>)>>)
      [] st.kind = "anonymous" ->
            Phrase("New",
                   <<Phrase("AnonymousClassDeclaration",
                            <<Phrase("ArgumentList", <<>>),
                              Phrase("ClassStatementList",
                                     IF st.body = "empty" THEN <<>>
                                     ELSE <<CallableNode("MethodDeclaration", "m",
                                                         st.body)>>)>>)>>)
      [] st.kind = "if" -> Phrase("IfList", <<Phrase("If", <<CallNode, BlockOf(st.body)>>)>>)
      [] st.kind = "ifelse" ->
            Phrase("IfList", <<Phrase("If", <<CallNode, BlockOf(st.body)>>),
                               Phrase("If", <<BlockOf("empty")>>)>>)
      [] st.kind = "foreach" ->
            Phrase("Foreach", <<CallNode, NullNode, VariableNode("$v"), BlockOf(st.body)>>)
      [] st.kind = "foreachProperty" ->
            Phrase("Foreach", <<CallNode, PropertyNode("k"), PropertyNode("v"),
                                BlockOf(st.body)>>)

ResolverTreeOf(src) ==
    Phrase("TopStatementList", [i \in 1..Len(src) |-> StatementNode(src[i])])

\* shouldDescend (lines 1010-1023)
ResolverShouldDescend(node) == node.type \notin {"null", "Variable"}

\* one call of the visitor, childIndex for inOrder
ResolverVisit(method, node, childIndex) ==
    [call |-> method, type |-> node.type, flag |-> node.flag, text |-> node.text,
     length |-> Len(node.children), childIndex |-> childIndex]

RECURSIVE ResolverTraverse(_)
\* Tree.traverse(visitor) of a visitor with inOrder: preOrder, the children
\* if shouldDescend says so with inOrder between them, postOrder
ResolverTraverse(node) ==
    <<ResolverVisit("preOrder", node, 0)>>
    \o (IF ResolverShouldDescend(node)
        THEN Flatten([i \in 1..Len(node.children) |->
                         ResolverTraverse(node.children[i])
                         \o (IF i < Len(node.children)
                             THEN <<ResolverVisit("inOrder", node, i - 1)>> ELSE <<>>)])
        ELSE <<>>)
    \o <<ResolverVisit("postOrder", node, 0)>>

InitResolver ==
    /\ NoAggregate
    /\ NoDocuments
    /\ NoReader
    /\ NoResolver
    /\ NoFormatter

\* the nodes on which preOrder pushes a scope (lines 903-906)
ScopeTypes ==
    {"FunctionDeclaration", "MethodDeclaration", "ClassDeclaration",
     "AnonymousClassDeclaration"}

\* util.top
Top(st) == IF st = <<>> THEN "undefined" ELSE st[Len(st)]

\* Array.prototype.pop
Pop(st) == IF st = <<>> THEN st ELSE SubSeq(st, 1, Len(st) - 1)

\* new TypeResolver(...) and tree.traverse(resolver): a resolver visits
\* one source
Resolve(src) ==
    /\ resolver = NewTypeResolver
    /\ answer = NoAnswer
    /\ resolver' = [NewTypeResolver EXCEPT !.visits = ResolverTraverse(ResolverTreeOf(src)),
                                           !.source = src]
    /\ answer' = [NoAnswer EXCEPT !.op = "resolve", !.status = "resolving"]
    /\ UNCHANGED <<aggVars, documents, documentStore, symbolTables, readerVars, formatter>>

\* the visit made next
ResolverVisiting(method) ==
    resolver.visits # <<>> /\ Head(resolver.visits).call = method

\* a visit has left the resolver as r: what it throws ends the traversal
ResolverLeaves(r, thrown) ==
    /\ resolver' = [r EXCEPT !.visits = IF thrown THEN <<>> ELSE Tail(resolver.visits)]
    /\ answer' = [answer EXCEPT !.status = IF thrown THEN "TypeError"
                                           ELSE IF Tail(resolver.visits) = <<>>
                                           THEN "returned"
                                           ELSE @]
    /\ UNCHANGED <<aggVars, documents, documentStore, symbolTables, readerVars, formatter>>

\* postOrder past its first test (lines 956-958) visits a node of this type
ResolverPostOrderOf(types) ==
    /\ ResolverVisiting("postOrder")
    /\ Len(resolver.modeStack) >= 1
    /\ Head(resolver.visits).type \in types

\* preOrder (lines 896-928)
ResolverPreOrder ==
    /\ ResolverVisiting("preOrder")
    /\ LET v == Head(resolver.visits)
       IN  ResolverLeaves(
               [resolver EXCEPT
                   !.variableTable =
                       IF v.type \in ScopeTypes THEN PushScope(@)
                       ELSE IF v.type = "IfList" THEN PushBranchGroup(@)
                       ELSE IF v.type = "If" THEN PushBranch(@)
                       ELSE @,
                   !.modeStack =
                       IF /\ v.type = "BinaryExpression"
                          /\ v.flag \in {"BinaryAssign", "BinaryInstanceOf"}
                       THEN Append(@, ResolveVariableName)
                       ELSE IF v.type = "Foreach" THEN Append(@, ResolveType)
                       ELSE @],
               FALSE)

\* inOrder (lines 930-952)
ResolverInOrder ==
    /\ ResolverVisiting("inOrder")
    /\ LET v == Head(resolver.visits)
       IN  ResolverLeaves(
               [resolver EXCEPT
                   !.modeStack =
                       IF /\ v.type = "BinaryExpression"
                          /\ v.flag \in {"BinaryAssign", "BinaryInstanceOf"}
                          /\ v.childIndex = 0
                       THEN Append(Pop(@), ResolveType)
                       ELSE @],
               FALSE)

\* postOrder, lines 956-958: with no mode on the mode stack it returns
ResolverPostOrderIdle ==
    /\ ResolverVisiting("postOrder")
    /\ Len(resolver.modeStack) < 1
    /\ ResolverLeaves(resolver, FALSE)

\* postOrder of a node whose value is null (lines 960-964): null is pushed,
\* and the switch reads nonTerminalType of null
ResolverPostOrderNull ==
    /\ ResolverPostOrderOf({"null"})
    /\ ResolverLeaves([resolver EXCEPT !.stack = Append(@, VNull)], TRUE)

\* postOrder, lines 965-970
ResolverPostOrderScope ==
    /\ ResolverPostOrderOf(ScopeTypes)
    /\ ResolverLeaves([resolver EXCEPT !.variableTable = PopScope(@)], FALSE)

\* postOrder, lines 971-973
ResolverPostOrderIfList ==
    /\ ResolverPostOrderOf({"IfList"})
    /\ ResolverLeaves([resolver EXCEPT !.variableTable = PopBranchGroup(@)], FALSE)

\* postOrder, lines 974-976
ResolverPostOrderIf ==
    /\ ResolverPostOrderOf({"If"})
    /\ ResolverLeaves([resolver EXCEPT !.variableTable = PopBranch(@)], FALSE)

\* postOrder, lines 977-979: the class has no method _postOrderVariable
ResolverPostOrderVariable ==
    /\ ResolverPostOrderOf({"Variable"})
    /\ ResolverLeaves(resolver, TRUE)

\* _postOrderAssignment (lines 1107-1112): popMany with no count pops
\* nothing, and the two values destructured are not used
PostOrderAssignment(r) == [r EXCEPT !.stack = PopMany(@, 0).rest]

\* postOrder, lines 980-987
ResolverPostOrderBinaryExpression ==
    /\ ResolverPostOrderOf({"BinaryExpression"})
    /\ LET v == Head(resolver.visits)
       IN  ResolverLeaves(
               IF v.flag = "BinaryAssign" THEN PostOrderAssignment(resolver)
               ELSE [resolver EXCEPT !.stack = Append(PopMany(@, v.length).rest, VNull)],
               FALSE)

\* postOrder, lines 988-990
ResolverPostOrderForeach ==
    /\ ResolverPostOrderOf({"Foreach"})
    /\ ResolverLeaves([resolver EXCEPT !.modeStack = Pop(@)], FALSE)

\* postOrder, lines 994-998
ResolverPostOrderNamespaceName ==
    /\ ResolverPostOrderOf({"NamespaceName"})
    /\ LET pm == PopMany(resolver.stack, Head(resolver.visits).length)
       IN  ResolverLeaves(
               [resolver EXCEPT
                   !.stack = IF Top(resolver.modeStack) = ResolveType
                             THEN Append(pm.rest, VString(Join(pm.popped)))
                             ELSE @],
               FALSE)

\* postOrder, lines 999-1003
ResolverPostOrderToken ==
    /\ ResolverPostOrderOf({"Token"})
    /\ ResolverLeaves(
           [resolver EXCEPT
               !.stack = IF Top(resolver.modeStack) = ResolveType
                         THEN Append(@, VString(<<Head(resolver.visits).text>>))
                         ELSE @],
           FALSE)

\* postOrder, lines 991-993 and 1004-1005
ResolverPostOrderDefault ==
    /\ ResolverVisiting("postOrder")
    /\ Len(resolver.modeStack) >= 1
    /\ Head(resolver.visits).type \notin
           ScopeTypes \cup {"null", "IfList", "If", "Variable", "BinaryExpression",
                            "Foreach", "NamespaceName", "Token"}
    /\ ResolverLeaves(resolver, FALSE)

NextResolver ==
    \/ \E src \in Sources : Resolve(src)
    \/ ResolverPreOrder
    \/ ResolverInOrder
    \/ ResolverPostOrderIdle
    \/ ResolverPostOrderNull
    \/ ResolverPostOrderScope
    \/ ResolverPostOrderIfList
    \/ ResolverPostOrderIf
    \/ ResolverPostOrderVariable
    \/ ResolverPostOrderBinaryExpression
    \/ ResolverPostOrderForeach
    \/ ResolverPostOrderNamespaceName
    \/ ResolverPostOrderToken
    \/ ResolverPostOrderDefault

SpecResolver == InitResolver /\ [][NextResolver]_vars

(***************************************************************************)
(* The FormatVisitor (completionProvider.ts 731-1333) and the documents it *)
(* formats.  A text is a sequence of characters.                           *)
(***************************************************************************)
\* the widest tab of the format options
MaxTabSize == 2

\* a token and a phrase of the parse tree of the document
FormatToken(tokenType, text) ==
    [phraseType |-> "undefined", tokenType |-> tokenType, text |-> text, children |-> <<>>]
FormatPhrase(phraseType, children) ==
    [phraseType |-> phraseType, tokenType |-> "undefined", text |-> <<>>,
     children |-> children]

RECURSIVE CreateWhitespace(_, _)
\* createWhitespace (lines 1299-1306)
CreateWhitespace(k, unit) == IF k > 0 THEN unit \o CreateWhitespace(k - 1, unit) ELSE <<>>

RECURSIVE CountNewlines(_)
\* countNewlines (lines 1308-1331): \r\n counts once
CountNewlines(text) ==
    IF text = <<>> THEN 0
    ELSE IF Head(text) = "\r"
    THEN 1 + CountNewlines(IF Len(text) > 1 /\ text[2] = "\n"
                           THEN Tail(Tail(text)) ELSE Tail(text))
    ELSE (IF Head(text) = "\n" THEN 1 ELSE 0) + CountNewlines(Tail(text))

Max(a, b) == IF a > b THEN a ELSE b

\* the edits of the format rules: null, an insertion after the previous
\* token, or the replacement or deletion of the previous whitespace
NoEdit == [kind |-> "null", text |-> <<>>]
Insert(text) == [kind |-> "insert", text |-> text]
Replace(text) == [kind |-> "replace", text |-> text]
Del == [kind |-> "del", text |-> <<>>]

\* the whitespace token is replaced unless its text is the expected one
Expect(previous, expected) == IF previous.text = expected THEN NoEdit ELSE Replace(expected)

\* the format rules (lines 1152-1297)
Rule(rule, previous, indentText, indentUnit) ==
    LET ws == previous.tokenType = "Whitespace"
        newlines == CountNewlines(previous.text)
    IN  CASE rule = "singleSpaceBefore" ->
                IF ~ws THEN Insert(<<" ">>) ELSE Expect(previous, <<" ">>)
          [] rule = "newlineIndentBefore" ->
                IF ~ws THEN Insert(<<"\n">> \o indentText)
                ELSE Expect(previous,
                            CreateWhitespace(Max(1, newlines), <<"\n">>) \o indentText)
          [] rule = "newlineIndentPlusOneBefore" ->
                IF ~ws THEN Insert(<<"\n">> \o indentText \o indentUnit)
                ELSE Expect(previous,
                            CreateWhitespace(Max(1, newlines), <<"\n">>)
                            \o indentText \o indentUnit)
          [] rule = "doubleNewlineIndentBefore" ->
                IF ~ws THEN Insert(<<"\n", "\n">> \o indentText)
                ELSE Expect(previous,
                            CreateWhitespace(Max(2, newlines), <<"\n">>) \o indentText)
          [] rule = "noSpaceBefore" -> IF ~ws THEN NoEdit ELSE Del
          [] rule = "noSpaceOrNewlineIndentBefore" ->
                IF ~ws THEN NoEdit
                ELSE IF newlines = 0 THEN Del
                ELSE Expect(previous, CreateWhitespace(newlines, <<"\n">>) \o indentText)
          [] rule = "noSpaceOrNewlineIndentPlusOneBefore" ->
                IF ~ws THEN NoEdit
                ELSE IF newlines = 0 THEN Del
                ELSE Expect(previous,
                            CreateWhitespace(newlines, <<"\n">>) \o indentText \o indentUnit)
          [] rule = "singleSpaceOrNewlineIndentPlusOneBefore" ->
                IF ~ws THEN Insert(<<" ">>)
                ELSE IF previous.text = <<" ">> THEN NoEdit
                ELSE IF newlines = 0 THEN Replace(<<" ">>)
                ELSE Expect(previous,
                            CreateWhitespace(newlines, <<"\n">>) \o indentText \o indentUnit)
          [] rule = "singleSpaceOrNewlineIndentBefore" ->
                IF ~ws THEN Insert(<<" ">>)
                ELSE IF previous.text = <<" ">> THEN NoEdit
                ELSE IF newlines = 0 THEN Replace(<<" ">>)
                ELSE Expect(previous, CreateWhitespace(newlines, <<"\n">>) \o indentText)

\* _incrementIndent (lines 1072-1074)
IncrementIndent(f) == [f EXCEPT !.indentText = @ \o f.indentUnit]

\* _decrementIndent (lines 1076-1078): slice(0, -length), and slice(0, -0)
\* is the empty text
DecrementIndent(f) ==
    [f EXCEPT !.indentText =
        IF Len(f.indentUnit) = 0 \/ Len(f.indentUnit) >= Len(@) THEN <<>>
        ELSE SubSeq(@, 1, Len(@) - Len(f.indentUnit))]

\* _hasNewlineWhitespaceChild (lines 1080-1090)
HasNewlineWhitespaceChild(phrase) ==
    \E i \in 1..Len(phrase.children) :
        /\ phrase.children[i].tokenType = "Whitespace"
        /\ CountNewlines(phrase.children[i].text) > 0

\* _shouldIndentAfterColon (lines 1107-1115)
ShouldIndentAfterColon(parent) == parent \in {"CaseStatement", "DefaultStatement"}

\* _shouldOpenParenthesisHaveNoSpaceBefore (lines 1117-1136)
ShouldOpenParenthesisHaveNoSpaceBefore(parent) ==
    parent \in {"FunctionCallExpression", "MethodCallExpression", "ScopedCallExpression",
                "EchoIntrinsic", "EmptyIntrinsic", "EvalIntrinsic", "ExitIntrinsic",
                "IssetIntrinsic", "ListIntrinsic", "PrintIntrinsic", "UnsetIntrinsic",
                "ArrayCreationExpression"}

\* the previous token is whitespace with a newline, or the list has such a
\* child (lines 777-782, 796-801)
IsMultiline(f, v) ==
    \/ /\ f.previousToken.tokenType = "Whitespace"
       /\ CountNewlines(f.previousToken.text) > 0
    \/ v.newlineChild

\* the comma delimited lists, bare and inside parentheses (lines 772-775,
\* 791-794)
BareLists ==
    {"QualifiedNameList", "ClassConstElementList", "ConstElementList",
     "PropertyElementList"}
ParenthesisedLists ==
    {"ParameterDeclarationList", "ArgumentExpressionList", "ClosureUseList",
     "ArrayInitialiserList"}

\* preorder of a phrase (lines 756-819)
PreorderPhrase(f, v) ==
    IF v.phraseType = "FunctionDeclarationBody"
       /\ v.parent = "AnonymousFunctionCreationExpression"
    THEN f
    ELSE IF v.phraseType \in
              {"FunctionDeclarationBody", "MethodDeclarationBody", "ClassDeclarationBody",
               "TraitDeclarationBody", "InterfaceDeclarationBody"}
    THEN [f EXCEPT !.nextFormatRule = "newlineIndentBefore"]
    ELSE IF v.phraseType \in BareLists \cup ParenthesisedLists
    THEN [IncrementIndent(f) EXCEPT
             !.nextFormatRule =
                 IF IsMultiline(f, v) THEN "newlineIndentBefore"
                 ELSE IF v.phraseType \in ParenthesisedLists THEN "noSpaceBefore"
                 ELSE @,
             !.isMultilineCommaDelimitedListStack = Append(@, IsMultiline(f, v))]
    ELSE IF v.phraseType = "EncapsulatedVariableList"
    THEN [f EXCEPT !.nextFormatRule = "noSpaceBefore"]
    ELSE f

\* a rule that is null or undefined
NoRule(rule) == rule \in {"null", "undefined"}

\* preorder of a token, lines 830-912: the rule its type chooses
TokenRule(rule, v) ==
    CASE v.tokenType = "DocumentComment" -> "newlineIndentBefore"
      [] v.tokenType = "PlusPlus" /\ v.parent = "PostfixIncrementExpression" ->
            "noSpaceBefore"
      [] v.tokenType = "MinusMinus" /\ v.parent = "PostfixDecrementExpression" ->
            "noSpaceBefore"
      [] v.tokenType \in {"Semicolon", "Comma"} -> "noSpaceBefore"
      [] v.tokenType \in {"Arrow", "ColonColon"} -> "noSpaceOrNewlineIndentPlusOneBefore"
      [] v.tokenType = "OpenParenthesis" ->
            IF ShouldOpenParenthesisHaveNoSpaceBefore(v.parent) THEN "noSpaceBefore"
            ELSE "singleSpaceBefore"
      [] v.tokenType = "OpenBracket" /\ v.parent = "SubscriptExpression" -> "noSpaceBefore"
      [] v.tokenType = "CloseBrace" ->
            IF v.parent \in {"SubscriptExpression", "EncapsulatedExpression",
                             "EncapsulatedVariable"}
            THEN "noSpaceBefore" ELSE "newlineIndentBefore"
      [] v.tokenType \in {"CloseBracket", "CloseParenthesis"} /\ NoRule(rule) ->
            "noSpaceBefore"
      [] /\ v.tokenType \in {"EncapsulatedAndWhitespace", "VariableName",
                             "DollarCurlyOpen", "CurlyOpen"}
         /\ v.parent = "EncapsulatedVariableList" -> "noSpaceBefore"
      [] OTHER -> rule

\* preorder of a token (lines 821-922)
PreorderToken(f, v) ==
    LET rule == f.nextFormatRule
        previous == f.previousToken
        g == [f EXCEPT !.previousToken = [tokenType |-> v.tokenType, text |-> v.text],
                       !.nextFormatRule = "null"]
        h == IF v.tokenType = "CloseBrace" THEN DecrementIndent(g)
             ELSE IF v.tokenType = "Comment" THEN [g EXCEPT !.nextFormatRule = rule]
             ELSE g
        chosen == IF NoRule(TokenRule(rule, v))
                  THEN "singleSpaceOrNewlineIndentPlusOneBefore"
                  ELSE TokenRule(rule, v)
        edit == Rule(chosen, previous, h.indentText, h.indentUnit)
    IN  IF previous = NoToken THEN g
        ELSE IF v.tokenType = "Whitespace" THEN [g EXCEPT !.nextFormatRule = rule]
        ELSE IF edit = NoEdit THEN h
        ELSE [h EXCEPT !.edits = Append(@, edit)]

RECURSIVE IsLastNamespaceUseDeclaration(_)
\* _isLastNamespaceUseDeclaration (lines 1092-1105) of the phrase types of
\* the siblings that follow the child ("undefined" for a token): the first
\* that has a phrase type decides; past the last sibling the phrase type of
\* undefined is read
IsLastNamespaceUseDeclaration(following) ==
    IF following = <<>> THEN "TypeError"
    ELSE IF Head(following) \notin {"undefined", "Unknown"}
    THEN (IF Head(following) # "NamespaceUseDeclaration" THEN "true" ELSE "false")
    ELSE IsLastNamespaceUseDeclaration(Tail(following))

\* postorder of a phrase (lines 925-971): [status, visitor]
PostorderPhrase(f, v) ==
    IF v.phraseType = "NamespaceUseDeclaration"
    THEN [status |-> IF IsLastNamespaceUseDeclaration(v.following) = "TypeError"
                     THEN "TypeError" ELSE "returned",
          visitor |-> IF IsLastNamespaceUseDeclaration(v.following) = "true"
                      THEN [f EXCEPT !.nextFormatRule = "doubleNewlineIndentBefore"]
                      ELSE f]
    ELSE [status |-> "returned", visitor |->
    IF v.phraseType \in {"CaseStatement", "DefaultStatement"} THEN DecrementIndent(f)
    ELSE IF v.phraseType = "NamespaceDefinition"
    THEN [f EXCEPT !.nextFormatRule = "doubleNewlineIndentBefore"]
    ELSE IF v.phraseType \in
              {"ParameterDeclarationList", "ArgumentExpressionList", "ClosureUseList",
               "QualifiedNameList", "ArrayInitialiserList"}
    THEN [f EXCEPT
             !.nextFormatRule = IF /\ f.isMultilineCommaDelimitedListStack # <<>>
                                   /\ Top(f.isMultilineCommaDelimitedListStack)
                                THEN "newlineIndentBefore" ELSE @,
             !.isMultilineCommaDelimitedListStack = Pop(@)]
    ELSE IF v.phraseType \in {"ClassConstElementList", "ConstElementList",
                              "PropertyElementList"}
    THEN [f EXCEPT !.isMultilineCommaDelimitedListStack = Pop(@)]
    ELSE IF v.phraseType = "EncapsulatedVariableList"
    THEN [f EXCEPT !.nextFormatRule = "noSpaceBefore"]
    ELSE f]

\* postorder of a token (lines 973-1068)
PostorderToken(f, v) ==
    CASE v.tokenType = "DocumentComment" -> [f EXCEPT !.nextFormatRule = "newlineIndentBefore"]
      [] v.tokenType = "OpenBrace" ->
            IncrementIndent([f EXCEPT !.nextFormatRule =
                                IF v.parent = "EncapsulatedExpression" THEN "noSpaceBefore"
                                ELSE "newlineIndentBefore"])
      [] v.tokenType = "CloseBrace" ->
            IF v.parent \notin {"EncapsulatedVariable", "EncapsulatedExpression",
                                "SubscriptExpression"}
            THEN [f EXCEPT !.nextFormatRule = "newlineIndentBefore"] ELSE f
      [] v.tokenType = "Semicolon" -> [f EXCEPT !.nextFormatRule = "newlineIndentBefore"]
      [] v.tokenType = "Colon" ->
            IF ShouldIndentAfterColon(v.parent)
            THEN [IncrementIndent(f) EXCEPT !.nextFormatRule = "newlineIndentBefore"]
            ELSE f
      [] v.tokenType = "Ampersand" ->
            IF v.parent # "BitwiseExpression"
            THEN [f EXCEPT !.nextFormatRule = "noSpaceBefore"] ELSE f
      [] v.tokenType \in {"Plus", "Minus"} ->
            IF v.parent = "UnaryOpExpression"
            THEN [f EXCEPT !.nextFormatRule = "noSpaceBefore"] ELSE f
      [] v.tokenType = "PlusPlus" ->
            IF v.parent = "PrefixIncrementExpression"
            THEN [f EXCEPT !.nextFormatRule = "noSpaceBefore"] ELSE f
      [] v.tokenType = "MinusMinus" ->
            IF v.parent = "PrefixDecrementExpression"
            THEN [f EXCEPT !.nextFormatRule = "noSpaceBefore"] ELSE f
      [] v.tokenType \in {"Ellipsis", "Exclamation", "AtSymbol", "ArrayCast", "BooleanCast",
                          "FloatCast", "IntegerCast", "ObjectCast", "StringCast",
                          "UnsetCast", "Tilde", "Backslash", "OpenParenthesis",
                          "OpenBracket"} ->
            [f EXCEPT !.nextFormatRule = "noSpaceBefore"]
      [] v.tokenType = "Comma" ->
            [f EXCEPT !.nextFormatRule =
                IF v.parent = "ArrayInitialiserList" THEN "singleSpaceOrNewlineIndentBefore"
                ELSE IF /\ f.isMultilineCommaDelimitedListStack # <<>>
                        /\ Top(f.isMultilineCommaDelimitedListStack)
                THEN "newlineIndentBefore"
                ELSE "singleSpaceBefore"]
      [] OTHER -> f

\* echo 1;  f($a);  f(<newline>$a);  [1, 2];  const A = 1;
SimpleFormatStatements == {"echo", "call", "callMultiline", "array", "const"}

\* use A;
UseStatement == [kind |-> "simple", body |-> "use"]

\* function f($a) {...}, {...} and switch ($a) { case 1: ... }
CompoundFormatStatements == {"function", "block", "switch"}

FormatStatements ==
    {[kind |-> "simple", body |-> b] : b \in SimpleFormatStatements}
    \cup {[kind |-> k, body |-> b] : k \in CompoundFormatStatements,
                                      b \in SimpleFormatStatements \cup {"empty"}}
    \cup {UseStatement}

FormatSources == SeqsUpTo(FormatStatements, MaxStatements) \ {<<>>}

\* lsp.FormattingOptions
FormattingOptions ==
    {[insertSpaces |-> TRUE, tabSize |-> k] : k \in 1..MaxTabSize}
    \cup {[insertSpaces |-> FALSE, tabSize |-> 1]}

Tok(tokenType) == FormatToken(tokenType, <<>>)
SimpleVariable == FormatPhrase("SimpleVariable", <<Tok("VariableName")>>)

CallPhrase(whitespace) ==
    FormatPhrase("ExpressionStatement",
        <<FormatPhrase("FunctionCallExpression",
              <<FormatPhrase("QualifiedName", <<Tok("Name")>>), Tok("OpenParenthesis")>>
              \o whitespace
              \o <<FormatPhrase("ArgumentExpressionList", <<SimpleVariable>>),
                   Tok("CloseParenthesis")>>),
          Tok("Semicolon")>>)

SimplePhrase(b) ==
    CASE b = "echo" ->
            FormatPhrase("EchoIntrinsic",
                <<Tok("Echo"), FormatPhrase("ExpressionList", <<Tok("IntegerLiteral")>>),
                  Tok("Semicolon")>>)
      [] b = "call" -> CallPhrase(<<>>)
      [] b = "callMultiline" -> CallPhrase(<<FormatToken("Whitespace", <<"\n">>)>>)
      [] b = "array" ->
            FormatPhrase("ExpressionStatement",
                <<FormatPhrase("ArrayCreationExpression",
                      <<Tok("OpenBracket"),
                        FormatPhrase("ArrayInitialiserList",
                            <<FormatPhrase("ArrayElement", <<Tok("IntegerLiteral")>>),
                              Tok("Comma"),
                              FormatPhrase("ArrayElement", <<Tok("IntegerLiteral")>>)>>),
                        Tok("CloseBracket")>>),
                  Tok("Semicolon")>>)
      [] b = "use" ->
            FormatPhrase("NamespaceUseDeclaration",
                <<Tok("Use"),
                  FormatPhrase("NamespaceUseClauseList",
                      <<FormatPhrase("NamespaceUseClause",
                            <<FormatPhrase("NamespaceName", <<Tok("Name")>>)>>)>>),
                  Tok("Semicolon")>>)
      [] b = "const" ->
            FormatPhrase("ConstDeclaration",
                <<Tok("Const"),
                  FormatPhrase("ConstElementList",
                      <<FormatPhrase("ConstElement",
                            <<Tok("Name"), Tok("Equals"), Tok("IntegerLiteral")>>)>>),
                  Tok("Semicolon")>>)

StatementListOf(b) ==
    FormatPhrase("StatementList", IF b = "empty" THEN <<>> ELSE <<SimplePhrase(b)>>)

StatementPhrase(st) ==
    CASE st.kind = "simple" -> SimplePhrase(st.body)
      [] st.kind = "function" ->
            FormatPhrase("FunctionDeclaration",
                <<FormatPhrase("FunctionDeclarationHeader",
                      <<Tok("Function"), Tok("Name"), Tok("OpenParenthesis"),
                        FormatPhrase("ParameterDeclarationList",
                            <<FormatPhrase("ParameterDeclaration",
                                           <<Tok("VariableName")>>)>>),
                        Tok("CloseParenthesis")>>),
                  FormatPhrase("FunctionDeclarationBody",
                      <<Tok("OpenBrace"), StatementListOf(st.body), Tok("CloseBrace")>>)>>)
      [] st.kind = "block" ->
            FormatPhrase("CompoundStatement",
                <<Tok("OpenBrace"), StatementListOf(st.body), Tok("CloseBrace")>>)
      [] st.kind = "switch" ->
            FormatPhrase("SwitchStatement",
                <<Tok("Switch"), Tok("OpenParenthesis"), SimpleVariable,
                  Tok("CloseParenthesis"), Tok("OpenBrace"),
                  FormatPhrase("CaseStatementList",
                      <<FormatPhrase("CaseStatement",
                            <<Tok("Case"), Tok("IntegerLiteral"), Tok("Colon"),
                              StatementListOf(st.body)>>)>>),
                  Tok("CloseBrace")>>)

\* the parse tree of the document: the open tag, then the statements
DocumentOf(src) ==
    FormatPhrase("StatementList",
                 <<Tok("OpenTag")>> \o [i \in 1..Len(src) |-> StatementPhrase(src[i])])

\* one call of the visitor: the node, the phrase type of the top of the
\* spine, whether the node has a child that is whitespace with a newline,
\* and the phrase types of the children of the parent that follow the node
FormatVisit(method, node, parent, following) ==
    [call |-> method, phraseType |-> node.phraseType, tokenType |-> node.tokenType,
     text |-> node.text, parent |-> parent,
     newlineChild |-> HasNewlineWhitespaceChild(node), following |-> following]

RECURSIVE FormatTraverse(_, _, _)
\* TreeTraverser.traverse(visitor): preorder, the children when preorder
\* returns true (it does for every phrase), postorder
FormatTraverse(node, parent, following) ==
    <<FormatVisit("preorder", node, parent, following)>>
    \o Flatten([i \in 1..Len(node.children) |->
                   FormatTraverse(node.children[i], node.phraseType,
                                  [j \in 1..(Len(node.children) - i) |->
                                      node.children[i + j].phraseType])])
    \o <<FormatVisit("postorder", node, parent, following)>>

InitFormat ==
    /\ NoAggregate
    /\ NoDocuments
    /\ NoReader
    /\ NoResolver
    /\ NoFormatter

\* provideDocumentFormattingEdits (lines 715-727) of a document the store
\* holds: new FormatVisitor(parsedDoc, formatOptions) (lines 740-746) and
\* parsedDoc.traverse(visitor)
Format(src, options) ==
    /\ formatter = NewFormatVisitor
    /\ answer = NoAnswer
    /\ formatter' =
           [NewFormatVisitor EXCEPT
               !.formatOptions = options,
               !.indentUnit = IF options.insertSpaces
                              THEN CreateWhitespace(options.tabSize, <<" ">>)
                              ELSE <<"\t">>,
               !.visits = FormatTraverse(DocumentOf(src), "undefined", <<>>),
               !.source = src]
    /\ answer' = [NoAnswer EXCEPT !.op = "format", !.status = "formatting"]
    /\ UNCHANGED <<aggVars, documents, documentStore, symbolTables, readerVars, resolver>>

\* the visit made next
Formatting(method, isToken) ==
    /\ formatter.visits # <<>>
    /\ Head(formatter.visits).call = method
    /\ (Head(formatter.visits).phraseType = "undefined") = isToken

\* a visit has left the visitor as f
Formatted(f) ==
    /\ formatter' = [f EXCEPT !.visits = Tail(formatter.visits)]
    /\ UNCHANGED <<aggVars, docVars, readerVars, resolver>>

FormatPreorderPhrase ==
    /\ Formatting("preorder", FALSE)
    /\ Formatted(PreorderPhrase(formatter, Head(formatter.visits)))

FormatPreorderToken ==
    /\ Formatting("preorder", TRUE)
    /\ Formatted(PreorderToken(formatter, Head(formatter.visits)))

\* what postorder throws leaves the traversal and
\* provideDocumentFormattingEdits
FormatPostorderPhrase ==
    /\ Formatting("postorder", FALSE)
    /\ LET r == PostorderPhrase(formatter, Head(formatter.visits))
       IN  /\ formatter' = [r.visitor EXCEPT
                                !.visits = IF r.status = "TypeError" THEN <<>>
                                           ELSE Tail(formatter.visits)]
           /\ answer' = [answer EXCEPT !.status = IF r.status = "TypeError"
                                                  THEN "TypeError" ELSE @]
    /\ UNCHANGED <<aggVars, documents, documentStore, symbolTables, readerVars, resolver>>

FormatPostorderToken ==
    /\ Formatting("postorder", TRUE)
    /\ Formatted(PostorderToken(formatter, Head(formatter.visits)))

\* Array.prototype.reverse
Reverse(q) == [i \in 1..Len(q) |-> q[Len(q) + 1 - i]]

\* return visitor.edits (lines 725, 748-750): the edits are reversed
FormatReturn ==
    /\ answer.op = "format"
    /\ answer.status = "formatting"
    /\ formatter.visits = <<>>
    /\ formatter' = [formatter EXCEPT !.edits = Reverse(@)]
    /\ answer' = [answer EXCEPT !.status = "returned"]
    /\ UNCHANGED <<aggVars, documents, documentStore, symbolTables, readerVars, resolver>>

NextFormat ==
    \/ \E src \in FormatSources, options \in FormattingOptions : Format(src, options)
    \/ FormatPreorderPhrase
    \/ FormatPreorderToken
    \/ FormatPostorderPhrase
    \/ FormatPostorderToken
    \/ FormatReturn

SpecFormat == InitFormat /\ [][NextFormat]_vars

(***************************************************************************)
(* Helpers of the properties.                                              *)
(***************************************************************************)
NamesOf(q) == {q[i].name : i \in 1..Len(q)}

\* the position of the first / last member of q named nm
FirstIndex(q, nm) ==
    CHOOSE i \in 1..Len(q) : q[i].name = nm /\ \A j \in 1..(i - 1) : q[j].name # nm
LastIndex(q, nm) ==
    CHOOSE i \in 1..Len(q) : q[i].name = nm /\ \A j \in (i + 1)..Len(q) : q[j].name # nm

\* how often the object x occurs in q
Count(x, q) == Cardinality({i \in 1..Len(q) : q[i] = x})

DistinctNames(q) == \A i, j \in 1..Len(q) : q[i].name = q[j].name => i = j

\* the member of q named nm (q holds one)
Kept(q, nm) == q[FirstIndex(q, nm)]

\* _mergeMembers has returned its list
MergeReturned == pc = "done" /\ result.status = "returned"

\* a members() call on the class root has ended
MembersCalled == pc = "idle" /\ result.status # "none" /\ store[symbol].kind = Class

NoObjectPrototypeName(q) == NamesOf(q) \cap ObjectPrototypeNames = {}

(***************************************************************************)
(* Properties of _mergeMembers (SpecMerge).                                *)
(***************************************************************************)

\* C2: under Override the returned list holds exactly one member per
\* distinct name of the input, and for every name whose first encountered
\* member is not magic that first member is the one kept.
C2_OverrideKeepsFirst ==
    (MergeReturned /\ strategy = Override) =>
        /\ DistinctNames(result.value)
        /\ NamesOf(result.value) = NamesOf(symbols)
        /\ \A nm \in NamesOf(symbols) :
              ~IsMagic(symbols[FirstIndex(symbols, nm)])
                  => Kept(result.value, nm) = symbols[FirstIndex(symbols, nm)]

\* an Override merge returned with a name met twice, first on a member that
\* is not magic, later on a documented one
C2_Witness ==
    /\ MergeReturned /\ strategy = Override
    /\ \E i, j \in 1..Len(symbols) :
          /\ i < j /\ symbols[i].name = symbols[j].name
          /\ FirstIndex(symbols, symbols[i].name) = i
          /\ ~IsMagic(symbols[i]) /\ ~symbols[i].doc /\ symbols[j].doc
          /\ symbols[i] \in Range(result.value)

\* C3: under Base the member kept for a name is the last one encountered,
\* and it stands at the list position where the name was first encountered.
C3_BaseKeepsLast ==
    (MergeReturned /\ strategy = Base) =>
        /\ Len(result.value) = Cardinality(NamesOf(symbols))
        /\ \A nm \in NamesOf(symbols) :
              result.value[Cardinality(NamesOf(SubSeq(symbols, 1, FirstIndex(symbols, nm))))]
                  = symbols[LastIndex(symbols, nm)]

\* a Base merge returned two names, the first of them met again after the
\* second
C3_Witness ==
    /\ MergeReturned /\ strategy = Base
    /\ Len(symbols) >= 3
    /\ symbols[1].name = symbols[3].name /\ symbols[2].name # symbols[1].name
    /\ result.value[1] = symbols[3]
    /\ Len(result.value) = 2

\* the rule of Documented read alone: the first member of the name, unless
\* it is undocumented and a later one is documented, and then the first
\* documented one
DocumentedChoice(q, nm) ==
    LET first == FirstIndex(q, nm)
        docs == {i \in 1..Len(q) : q[i].name = nm /\ q[i].doc}
    IN  IF ~q[first].doc /\ docs # {}
        THEN q[CHOOSE i \in docs : \A j \in docs : i <= j]
        ELSE q[first]

\* no magic member of the name is encountered before a non-magic one
NoMagicBeforeReal(q, nm) ==
    \A i, j \in 1..Len(q) :
        (i < j /\ q[i].name = nm /\ q[j].name = nm /\ IsMagic(q[i])) => IsMagic(q[j])

\* C4 as claimed: under Documented the member kept for every name is the
\* first encountered one unless it has no documentation and a later one
\* has, in which case the first documented one is kept for good.
C4_DocumentedOriginal ==
    (MergeReturned /\ strategy = Documented) =>
        \A nm \in NamesOf(symbols) :
            Kept(result.value, nm) = DocumentedChoice(symbols, nm)

\* C4 amended: the same, for every name for which no magic member is
\* encountered before a non-magic one (a non-magic member replaces a kept
\* magic one whatever their documentation).
C4_DocumentedAmended ==
    (MergeReturned /\ strategy = Documented) =>
        \A nm \in NamesOf(symbols) :
            NoMagicBeforeReal(symbols, nm)
                => Kept(result.value, nm) = DocumentedChoice(symbols, nm)

\* a Documented merge met one name three times, undocumented, documented,
\* documented, and kept the second
C4_Witness ==
    /\ MergeReturned /\ strategy = Documented
    /\ Len(symbols) >= 3
    /\ symbols[1].name = symbols[2].name /\ symbols[2].name = symbols[3].name
    /\ NoMagicBeforeReal(symbols, symbols[1].name)
    /\ ~symbols[1].doc /\ symbols[2].doc /\ symbols[3].doc
    /\ result.value = <<symbols[2]>>

\* C5: for every strategy but None, when the member kept for a name is
\* magic and the member now encountered under that name is not, the loop
\* iteration puts the encountered member in the kept one's place.
C5_NonMagicReplacesMagic ==
    [][(/\ pc = "merge" /\ strategy # None /\ n <= Len(symbols)
        /\ MapLookup(map, symbols[n].name) > 0
        /\ IsMagic(merged[MapLookup(map, symbols[n].name)])
        /\ ~IsMagic(symbols[n]))
       => merged'[MapLookup(map, symbols[n].name)] = symbols[n]]_vars

\* an Override merge in which a non-magic member took the place of the
\* magic member first met under its name
C5_Witness ==
    /\ pc = "merge" /\ strategy = Override
    /\ \E k \in 1..Len(merged) :
          /\ ~IsMagic(merged[k])
          /\ IsMagic(symbols[FirstIndex(symbols, merged[k].name)])
          /\ FirstIndex(symbols, merged[k].name) < merged[k].id[2]

\* C6: for every strategy but None, a name for which the input holds a
\* non-magic member is answered with a non-magic member, whatever the order.
C6_RealBeatsMagic ==
    (MergeReturned /\ strategy # None) =>
        \A nm \in NamesOf(symbols) :
            (\E i \in 1..Len(symbols) : symbols[i].name = nm /\ ~IsMagic(symbols[i]))
                => ~IsMagic(Kept(result.value, nm))

(***************************************************************************)
(* Properties of members() (SpecMembers) and of the associated-set walk    *)
(* (SpecAssoc).                                                            *)
(***************************************************************************)
RootChildren == store[symbol].children

\* the members of q that the caller's predicate p accepts
AcceptedBy(q, p) == SelectSeq(q, LAMBDA x : CallerPredicate(p, x) = "true")

RECURSIVE VisibleTraitMembers(_, _, _)
\* the non-private children, accepted by p, of the traits of list, in order
VisibleTraitMembers(st, list, p) ==
    IF list = <<>> THEN <<>>
    ELSE SelectSeq(AcceptedBy(st[Head(list)].children, p), LAMBDA x : ~IsPrivate(x))
         \o VisibleTraitMembers(st, Tail(list), p)

\* C1: members(Override) of a class whose associated set holds a class
\* Base returns normally and holds exactly once every non-private member
\* of Base whose name the root does not declare, with Base's type.
\* (Stated for acyclic roots without a member named like an inherited
\* property of {}.)
C1_InheritedMembersReturned ==
    (/\ MembersCalled
     /\ call.strategy = Override /\ call.predicate = "undefined"
     /\ symbol \notin Range(assocCache.list)
     /\ NoObjectPrototypeName(RootChildren)) =>
        \A b \in Range(assocCache.list) :
            (b # symbol /\ store[b].kind = Class) =>
                /\ result.status = "returned"
                /\ \A x \in Range(store[b].children) :
                      (~IsPrivate(x) /\ x.name \notin NamesOf(RootChildren))
                          => Count(x, result.value) = 1

\* C7: members() of a class returns the root's private members that the
\* caller's predicate accepts, and no private member of another
\* class-like, for every strategy and predicate.  (Stated for acyclic
\* roots whose children have different names, none of them inherited by
\* {}.)
C7_PrivateVisibility ==
    (/\ MembersCalled
     /\ symbol \notin Range(assocCache.list)
     /\ NoObjectPrototypeName(RootChildren)
     /\ DistinctNames(RootChildren)) =>
        /\ result.status = "returned"
        /\ \A x \in Range(RootChildren) :
              (IsPrivate(x) /\ CallerPredicate(call.predicate, x) = "true")
                  => x \in Range(result.value)
        /\ \A x \in Range(result.value) : IsPrivate(x) => x.id[1] = symbol

\* C8: members() of a class appends the non-private members of the traits
\* of the associated set, in trait order and unmerged, after the merged
\* class-chain members.  (Stated for a root whose associated set holds
\* traits only, so that the class chain is the root.)
C8_TraitMembersAppended ==
    (/\ MembersCalled
     /\ NoObjectPrototypeName(RootChildren)
     /\ \A t \in Range(assocCache.list) : store[t].kind = Trait) =>
        /\ result.status = "returned"
        /\ result.value =
              MergeMembers(AcceptedBy(RootChildren, call.predicate), call.strategy).value
              \o VisibleTraitMembers(store, assocCache.list, call.predicate)

\* C9 as claimed: for a class with an empty associated set,
\* members(Override) without a predicate returns the class's children.
\* (Roots with a member named like an inherited property of {} are left
\* to C29.)
C9_LoneClassOriginal ==
    (/\ MembersCalled
     /\ call.strategy = Override /\ call.predicate = "undefined"
     /\ assocCache.list = <<>>
     /\ NoObjectPrototypeName(RootChildren)) =>
        /\ result.status = "returned"
        /\ result.value = RootChildren

\* C9 amended: for a class with an empty associated set whose children
\* have different names, members(Override) without a predicate returns
\* the class's children, and throws a TypeError instead when one of them
\* is named like an inherited property of {}.
C9_LoneClassAmended ==
    (/\ MembersCalled
     /\ call.strategy = Override /\ call.predicate = "undefined"
     /\ assocCache.list = <<>>
     /\ DistinctNames(RootChildren)) =>
        IF NoObjectPrototypeName(RootChildren)
        THEN result.status = "returned" /\ result.value = RootChildren
        ELSE result.status = "TypeError"

\* members(Override) of a lone class with a public and a private child of
\* different names returned both
C9_Witness ==
    /\ MembersCalled
    /\ call.strategy = Override /\ call.predicate = "undefined"
    /\ assocCache.list = <<>>
    /\ Len(RootChildren) = 2 /\ DistinctNames(RootChildren)
    /\ \E x \in Range(RootChildren) : IsPrivate(x)
    /\ result.status = "returned" /\ result.value = RootChildren

\* C10: when the walk has ended, the associated list holds no symbol
\* twice and does not hold the root.
C10_NoBackEdge ==
    (pc = "idle" /\ assocCache.isSet) =>
        /\ \A i, j \in 1..Len(assocCache.list) :
              assocCache.list[i] = assocCache.list[j] => i = j
        /\ symbol \notin Range(assocCache.list)

(***************************************************************************)
(* Properties of the constructor (SpecConstruct).                          *)
(***************************************************************************)

\* C11: constructing a TypeAggregate with a null symbol or with a symbol
\* whose kind is not Class, Interface or Trait throws 'Invalid Argument'
\* and yields no aggregate, whether or not there is a symbol store to read
\* (the store is not looked at); with a Class, Interface or Trait symbol
\* the construction succeeds and the aggregate holds that symbol.
C11_InvalidArgument ==
    call.op = "new" =>
        IF call.symbol = Null \/ store[call.symbol].kind \notin {Class, Interface, Trait}
        THEN /\ result.status = "Invalid Argument"
             /\ result.value = Null
        ELSE /\ result.status = "constructed"
             /\ result.value = call.symbol
             /\ symbol = call.symbol

\* a function symbol was refused although no symbol store was given, and a
\* trait of the same store would be taken
C11_Witness ==
    /\ call.op = "new"
    /\ call.store = Null
    /\ call.symbol # Null
    /\ store[call.symbol].kind = "Function"
    /\ result.status = "Invalid Argument"
    /\ \E t \in TypeNames : store[t].kind = Trait

(***************************************************************************)
(* Properties of the ParsedDocumentStore (SpecDocStore).                   *)
(***************************************************************************)

\* C12: add of a document whose URI the store holds throws 'Duplicate key'
\* and changes nothing (the stored document, the count, the subscriptions);
\* add of a document whose URI the store does not hold, be it for the
\* first time or after a remove, stores it, subscribes to it and raises
\* the count by one; remove of a held URI lowers the count by one: the
\* count is the number of URIs added and not removed.
C12_DuplicateKey ==
    [][/\ (answer'.op = "add" /\ Has(documentStore, answer'.uri))
            => /\ answer'.status = "Duplicate key"
               /\ documentStore' = documentStore
               /\ documents' = documents
       /\ (answer'.op = "add" /\ ~Has(documentStore, answer'.uri))
            => /\ answer'.status = "added"
               /\ FindDocument(documentStore', answer'.uri) = answer'.value
               /\ documents'[answer'.value].bubble = "store"
               /\ DocumentCount(documentStore') = DocumentCount(documentStore) + 1
       /\ (answer'.op = "remove" /\ Has(documentStore, answer'.uri))
            => /\ ~Has(documentStore', answer'.uri)
               /\ DocumentCount(documentStore') = DocumentCount(documentStore) - 1
               /\ \A d \in DocIds :
                     documents'[d].bubble = "store" => FindDocument(documentStore', documents'[d].uri) = d
      ]_vars

\* a second document of a held URI was refused, after that URI had been
\* removed and added once before
C12_Witness ==
    /\ answer.op = "add"
    /\ answer.status = "Duplicate key"
    /\ Has(documentStore, answer.uri)
    /\ FindDocument(documentStore, answer.uri) # answer.value
    /\ documents[answer.value].bubble = "none"

(***************************************************************************)
(* C13: re-parse is debounced.  applyChanges patches the text at once,     *)
(* leaves the parse tree alone and leaves a timer running; the edits of a  *)
(* burst are answered by one reparse and one change event, run when the    *)
(* timer fires (or a request flushes it), and its parse tree is the parse  *)
(* of the text with every edit applied; an edit is always followed by      *)
(* such a reparse in the end.                                              *)
(***************************************************************************)
\* the call that has just returned was editDocument and reached document d
EditedIn(d) ==
    /\ answer'.op = "editDocument"
    /\ FindDocument(documentStore, answer'.uri) = d

\* the step ran _reparse of document d
ReparsedIn(d) ==
    /\ documents[d].pending > 0
    /\ \/ answer'.op = "timer" /\ answer'.value = d
       \/ answer'.op = "query" /\ FindDocument(documentStore, answer'.uri) = d

C13_EditStep ==
    \A d \in DocIds :
        EditedIn(d) =>
            /\ documents'[d].text = ApplyEdits(documents[d].text, answer'.changes)
            /\ documents'[d].tree = documents[d].tree
            /\ documents'[d].timer
            /\ documents'[d].pending = documents[d].pending + 1
            /\ answer'.reparses = 0 /\ answer'.delivered = 0
            /\ symbolTables' = symbolTables

C13_ReparseStep ==
    /\ answer'.reparses \in {0, 1}
    /\ answer'.reparses = 1 => \E d \in DocIds : ReparsedIn(d)
    /\ \A d \in DocIds :
           ReparsedIn(d) =>
               /\ answer'.reparses = 1
               /\ documents'[d] \in
                      {NoDocument,
                       [documents[d] EXCEPT !.tree = Parse(documents[d].text),
                                            !.timer = FALSE, !.pending = 0]}

\* a timer runs exactly while edits wait for their reparse, and a document
\* with no edit waiting has the parse tree of its text
C13_Scheduled ==
    \A d \in DocIds :
        /\ documents[d].timer <=> documents[d].pending > 0
        /\ documents[d].pending = 0 => documents[d].tree = Parse(documents[d].text)

C13_Debounce ==
    /\ [][C13_EditStep /\ C13_ReparseStep]_vars
    /\ []C13_Scheduled
    /\ \A d \in DocIds : (documents[d].pending > 0) ~> (documents[d].pending = 0)

\* the timer has fired after a burst of two edits: one reparse, one
\* delivery, and the tree of the text the edits have left
C13_Witness ==
    /\ answer.op = "timer"
    /\ answer.edits = 2
    /\ answer.reparses = 1 /\ answer.delivered = 1
    /\ documents[answer.value].uri = answer.uri
    /\ documents[answer.value].text # <<>>
    /\ documents[answer.value].tree = Parse(documents[answer.value].text)
    /\ GetSymbolTable(symbolTables, answer.uri) = SymbolTableCreate(documents[answer.value])

(***************************************************************************)
(* C14: a request for an open document with edits waiting in the debounce  *)
(* runs the reparse and the replacement of the symbols before its provider *)
(* is asked, so the provider reads the parse tree and the symbol table of  *)
(* the text with every edit applied; with no edit waiting the flush runs   *)
(* no reparse and delivers no change event.                                *)
(***************************************************************************)
C14_FlushBeforeProvider ==
    [][answer'.op = "query" =>
        LET uri == answer'.uri
            d == FindDocument(documentStore, uri)
        IN  IF d # 0 /\ documents[d].pending > 0
            THEN /\ answer'.reparses = 1 /\ answer'.delivered = 1
                 /\ documents'[d].text = documents[d].text
                 /\ answer'.tree = Parse(documents[d].text)
                 /\ answer'.table = [uri |-> uri,
                                     symbols |-> ReadSymbols(Parse(documents[d].text))]
                 /\ documents'[d].tree = answer'.tree
                 /\ symbolTables'[uri] = answer'.table
                 /\ ~documents'[d].timer
            ELSE /\ answer'.reparses = 0 /\ answer'.delivered = 0
                 /\ documents' = documents
                 /\ symbolTables' = symbolTables
                 /\ answer'.tree = IF d = 0 THEN NoTree ELSE documents[d].tree
                 /\ answer'.table = symbolTables[uri]
    ]_vars

\* a request has flushed a reparse and its provider has read the class the
\* edit typed
C14_Witness ==
    /\ answer.op = "query"
    /\ answer.reparses = 1 /\ answer.delivered = 1
    /\ answer.tree.children # <<>>
    /\ answer.table.symbols = ReadSymbols(answer.tree)
    /\ Has(documentStore, answer.uri)
    /\ documents[FindDocument(documentStore, answer.uri)].text = answer.tree.children

(***************************************************************************)
(* C15: whatever the interleaving over the open documents, a reparse of a  *)
(* document replaces its parse tree before its change event is triggered,  *)
(* the symbol store replaces the symbols of that URI and of no other when  *)
(* the event is delivered, a reparse makes exactly one delivery, and the   *)
(* table of an open document is never one read from an older text than     *)
(* the one its parse tree was parsed from.                                 *)
(***************************************************************************)
C15_ReparseStep ==
    /\ \A d \in DocIds :
           ReparsedIn(d) =>
               LET doc == documents[d]
               IN  /\ answer'.reparses = 1
                   /\ IF doc.bubble = "store"
                      THEN /\ answer'.delivered = 1
                           /\ symbolTables' =
                                  [symbolTables EXCEPT ![doc.uri] =
                                      [uri |-> doc.uri,
                                       symbols |-> ReadSymbols(Parse(doc.text))]]
                      ELSE /\ answer'.delivered = 0
                           /\ symbolTables' = symbolTables
    /\ answer'.delivered <= answer'.reparses

\* the table of an open document is the one read from its parse tree
C15_TableCurrent ==
    \A uri \in Uris :
        Has(documentStore, uri) /\ GetSymbolTable(symbolTables, uri) # NoTable =>
            GetSymbolTable(symbolTables, uri) =
                SymbolTableCreate(documents[FindDocument(documentStore, uri)])

C15_PipelineOrder ==
    /\ [][C15_ReparseStep]_vars
    /\ []C15_TableCurrent

\* two documents are open; the timer of one has fired and its symbols are
\* those of its new text, while the other still waits for its reparse
C15_Witness ==
    /\ answer.op = "timer" /\ answer.reparses = 1 /\ answer.delivered = 1
    /\ \A uri \in Uris : Has(documentStore, uri)
    /\ FindDocument(documentStore, answer.uri) = answer.value
    /\ documents[answer.value].text # <<>>
    /\ GetSymbolTable(symbolTables, answer.uri) = SymbolTableCreate(documents[answer.value])
    /\ \E d \in DocIds : d # answer.value /\ documents[d].pending > 0
                            /\ documents[d].tree # Parse(documents[d].text)

(***************************************************************************)
(* initialise(), the first or a later one: the new symbol store holds one  *)
(* table, the built-in one, the symbols known are the symbols of that      *)
(* table, and no document is open.  How many symbols that is, the sources  *)
(* do not say.                                                             *)
(***************************************************************************)
InitialiseLeavesBuiltInAlone ==
    answer.op = "initialise" =>
        /\ NumberDocumentsKnown = 1
        /\ GetSymbolTable(symbolTables, BuiltInUri) \in BuiltInTables
        /\ NumberSymbolsKnown = TableSymbolCount(GetSymbolTable(symbolTables, BuiltInUri))
        /\ NumberDocumentsOpen = 0

(***************************************************************************)
(* C17: forget(uri) returns the number of symbols it removed: the count of *)
(* the table of a URI that is known and not open, which it removes; 0 for  *)
(* an unknown or an open URI, with both stores left as they were.          *)
(***************************************************************************)
C17_ForgetCount ==
    [][answer'.op = "forget" =>
        LET uri == answer'.uri
            table == GetSymbolTable(symbolTables, uri)
        IN  /\ answer'.status = "returned"
            /\ documentStore' = documentStore
            /\ documents' = documents
            /\ IF table # NoTable /\ ~Has(documentStore, uri)
               THEN /\ answer'.value = TableSymbolCount(table)
                    /\ symbolTables' = [symbolTables EXCEPT ![uri] = NoTable]
               ELSE /\ answer'.value = 0
                    /\ symbolTables' = symbolTables
    ]_vars

\* a read has ended: the traversal returned, or a handler threw
ReadEnded == answer.op = "read" /\ answer.status \in {"returned", "TypeError"}

\* the parents the source declares for its class, resolved: the class it
\* extends, the interfaces it implements, the traits it uses
DeclaredAssociated(p) ==
    (IF p.extends = <<>> THEN <<>> ELSE <<ResolveNotFullyQualified(p, p.extends)>>)
    \o [i \in 1..Len(p.implements) |-> ResolveNotFullyQualified(p, p.implements[i])]
    \o (IF p.traits = "none" THEN <<>> ELSE <<ResolveNotFullyQualified(p, <<"T">>)>>)

(***************************************************************************)
(* C18: reading a class declaration yields a class symbol whose name is    *)
(* the declared name prefixed by the current namespace and whose           *)
(* associated list is the extends target resolved through the import       *)
(* table, then the implemented interfaces in declared order, then the used *)
(* traits: `namespace A\B; use C\D as E; class F extends E\G {}` yields    *)
(* A\B\F with associated[0] = C\D\G.                                       *)
(***************************************************************************)
C18_ClassSymbol ==
    (ReadEnded /\ program.decl = "class") =>
        /\ answer.status = "returned"
        /\ \E i \in DOMAIN symbolTreeRoot :
              /\ symbolTreeRoot[i].kind = Class
              /\ symbolTreeRoot[i].name = program.namespace \o <<program.name>>
              /\ symbolTreeRoot[i].associated = DeclaredAssociated(program)

(***************************************************************************)
(* C25: reading `interface I extends J, K` yields an Interface symbol      *)
(* whose associated list holds the resolved name of every listed parent    *)
(* in declared order (the list the type aggregate of I follows to reach J  *)
(* and K).                                                                 *)
(***************************************************************************)
C25_InterfaceParents ==
    (ReadEnded /\ program.decl = "interface" /\ program.implements # <<>>) =>
        /\ answer.status = "returned"
        /\ \E i \in DOMAIN symbolTreeRoot :
              /\ symbolTreeRoot[i].kind = Interface
              /\ symbolTreeRoot[i].associated = DeclaredAssociated(program)

\* the scope and branch nesting of a variable table
Nesting(table) == [i \in 1..Len(table) |-> table[i].kind]

\* the resolver leaves a node of one of the types
Leaving(types) == ResolverVisiting("postOrder") /\ Head(resolver.visits).type \in types

\* the traversal of the resolver is over
ResolveEnded == answer.op = "resolve" /\ answer.status \in {"returned", "TypeError"}

(***************************************************************************)
(* C22: the scope pushed on entering a function, method, class or          *)
(* anonymous class declaration is popped on leaving that node, and so are  *)
(* the branch group of an if-list and the branch of an if, whether or not  *)
(* the node contains an assignment, instanceof or foreach: leaving the     *)
(* node takes the nesting of the variable table back by that frame.        *)
(***************************************************************************)
C22_NestingBalanced ==
    [][/\ Leaving(ScopeTypes) =>
             Nesting(resolver'.variableTable) = Nesting(PopScope(resolver.variableTable))
       /\ Leaving({"IfList"}) =>
             Nesting(resolver'.variableTable)
                 = Nesting(PopBranchGroup(resolver.variableTable))
       /\ Leaving({"If"}) =>
             Nesting(resolver'.variableTable) = Nesting(PopBranch(resolver.variableTable))]_vars

(***************************************************************************)
(* C23: once the resolver has processed the assignment `$a = new Foo();`   *)
(* that ends the source, the variable table binds $a to Foo in the current *)
(* scope: the traversal returns and the type looked up for $a is Foo.      *)
(***************************************************************************)
C23_AssignmentBinds ==
    (ResolveEnded
     /\ resolver.source[Len(resolver.source)] = [kind |-> "simple", body |-> "assign"]) =>
        /\ answer.status = "returned"
        /\ GetType(resolver.variableTable, "$a") = {"Foo"}

(***************************************************************************)
(* C30: every increment of the indent made on entering a comma delimited   *)
(* list, on an open brace or on the colon of a case is undone when the     *)
(* construct is left: once a well-nested document is formatted the indent  *)
(* text is empty.                                                          *)
(***************************************************************************)
C30_IndentBalanced ==
    (answer.op = "format" /\ answer.status = "returned") => formatter.indentText = <<>>

\* the tags of a doc comment that synthesize a member
MemberTags(tags) ==
    SelectSeq(tags, LAMBDA tag : HasPropertyInName(tag.tagName) \/ tag.tagName = AtMethod)

\* the member carries what the tag says
MemberOfTag(member, tag) ==
    /\ member.name = <<tag.name>>
    /\ Magic \in member.modifiers
    /\ Public \in member.modifiers
    /\ (ReadOnly \in member.modifiers) = (tag.tagName = AtPropertyRead)
    /\ (WriteOnly \in member.modifiers) = (tag.tagName = AtPropertyWrite)
    /\ member.type.defined
    /\ IF tag.tagName = AtMethod
       THEN member.kind = "Method" /\ member.type.atoms = {<<tag.returnTypeString>>}
       ELSE member.kind = "Property" /\ member.type.atoms = {<<tag.typeString>>}

(***************************************************************************)
(* C19: the members synthesized from the tags of the doc comment of a      *)
(* class are children of the class symbol, one for each @property,         *)
(* @property-read, @property-write and @method tag in the order of the     *)
(* tags; each carries Magic and Public, ReadOnly exactly when its tag is   *)
(* @property-read, WriteOnly exactly when it is @property-write, and the   *)
(* type written in the tag.                                                *)
(***************************************************************************)
C19_MagicMembers ==
    \A i \in DOMAIN symbolTreeRoot :
        (symbolTreeRoot[i].kind = Class /\ program.decl = "class" /\ program.doc) =>
            LET members == symbolTreeRoot[i].children
                tags == MemberTags(program.tags)
            IN  /\ Len(members) = Len(tags)
                /\ \A k \in 1..Len(tags) : MemberOfTag(members[k], tags[k])

\* a class with the doc comment `@property-read int $y @method string m($a)`
\* has been read
C19_Witness ==
    /\ answer.status = "returned"
    /\ program.doc
    /\ \E i \in DOMAIN symbolTreeRoot :
          /\ symbolTreeRoot[i].kind = Class
          /\ Len(symbolTreeRoot[i].children) = 2
          /\ ReadOnly \in symbolTreeRoot[i].children[1].modifiers
          /\ symbolTreeRoot[i].children[2].kind = "Method"

\* the names of the parameters that have one
NamedParameters(params) ==
    LET named == SelectSeq(params, LAMBDA q : q.name # "")
    IN  [k \in 1..Len(named) |-> <<named[k].name>>]

\* the symbols of the tree: the children of the root and their children
SymbolsRead ==
    {symbolTreeRoot[i] : i \in DOMAIN symbolTreeRoot}
    \cup UNION {Range(symbolTreeRoot[i].children) : i \in DOMAIN symbolTreeRoot}

(***************************************************************************)
(* C20: reading a function or a method with a parameter that has no name   *)
(* completes without error, with or without a doc comment, and yields a    *)
(* symbol whose children are the named parameters in their order.          *)
(***************************************************************************)
C20_UnnamedSkipped ==
    (/\ ReadEnded
     /\ program.decl \in {"function", "method"}
     /\ \E k \in DOMAIN program.params : program.params[k].name = "") =>
        /\ answer.status = "returned"
        /\ \E s \in SymbolsRead :
              /\ s.kind = (IF program.decl = "function" THEN "Function" ELSE "Method")
              /\ [k \in 1..Len(s.children) |-> s.children[k].name]
                     = NamedParameters(program.params)

(***************************************************************************)
(* C21: the reader is never fatal on a partial parse: postOrder of an      *)
(* active reader on a node whose value is null completes without throwing  *)
(* and pushes exactly one null for that node.                              *)
(***************************************************************************)
C21_NullNodeNotFatal ==
    [][PostOrderOf({"null"}) =>
          /\ answer'.status # "TypeError"
          /\ stack' = Append(stack, VNull)
          /\ nodes' = Tail(nodes)]_vars

(***************************************************************************)
(* C26: while the reader is active every visited node has a fixed net      *)
(* stack effect: postOrder of a token pushes exactly one value, the text   *)
(* of the token, and postOrder of a name, a name list, a parameter or a    *)
(* list leaves exactly one value in place of the values of its children.   *)
(***************************************************************************)
C26_StackEffect ==
    [][/\ PostOrderOf({"Token"}) => stack' = Append(stack, VString(<<Head(nodes).text>>))
       /\ (PostOrderOf({"NamespaceName", "NameList", "ParameterList", "ClassStatementList"})
             /\ answer'.status # "TypeError")
            => Len(stack') = Len(stack) - Head(nodes).length + 1]_vars

(***************************************************************************)
(* C29: the merge treats every member name alike: under a strategy other   *)
(* than None, a merge of members of which one is named like a built-in     *)
(* property of objects (toString) returns, with exactly one entry of that  *)
(* name.                                                                   *)
(***************************************************************************)
C29_UniformNames ==
    (/\ pc = "done"
     /\ strategy # None
     /\ ~NoObjectPrototypeName(symbols)) =>
        /\ result.status = "returned"
        /\ \A nm \in NamesOf(symbols) \cap ObjectPrototypeNames :
              Cardinality({i \in 1..Len(result.value) : result.value[i].name = nm}) = 1
(***************************************************************************)
(* C24: openDocument for a URI whose table workspace discovery added       *)
(* succeeds: no error is raised, and afterwards the document store holds   *)
(* the document and the symbol store the table read from the opened text.  *)
(***************************************************************************)
C24_OpenAfterDiscover ==
    [][(/\ answer'.op = "openDocument"
        /\ ~Has(documentStore, answer'.uri)
        /\ GetSymbolTable(symbolTables, answer'.uri) # NoTable
        /\ documents' # documents) =>
          /\ answer'.status = "returned"
          /\ Has(documentStore', answer'.uri)
          /\ GetSymbolTable(symbolTables', answer'.uri)
                = SymbolTableCreate(documents'[FindDocument(documentStore', answer'.uri)])]_vars

\* the store does not hold the document d, and no replaced store does: it
\* is closed
Closed(d) ==
    /\ documents[d].uri # ""
    /\ documents[d].bubble # "replaced"
    /\ FindDocument(documentStore, documents[d].uri) # d

(***************************************************************************)
(* C27: once closeDocument has returned, no reparse of the closed document *)
(* reaches the symbol store: when its timer fires, the event of the store  *)
(* is not triggered, no symbol table is replaced, and a document opened    *)
(* again under the URI is left as it is.                                   *)
(***************************************************************************)
C27_ClosedStaysOut ==
    [][\A d \in DocIds :
          (answer'.op = "timer" /\ answer'.value = d /\ Closed(d)) =>
              /\ answer'.delivered = 0
              /\ symbolTables' = symbolTables
              /\ documentStore'.map = documentStore.map
              /\ \A e \in DocIds \ {d} : documents'[e] = documents[e]]_vars

\* the timer of a closed document has fired, its handler has run, and the
\* URI is open again
C27_Witness ==
    /\ answer.op = "timer"
    /\ answer.reparses = 1
    /\ answer.delivered = 0
    /\ Has(documentStore, answer.uri)
    /\ FindDocument(documentStore, answer.uri) # answer.value

(***************************************************************************)
(* C28: after initialise(), whatever calls follow, every URI the document  *)
(* store holds has a symbol table in the symbol store, so                  *)
(* numberDocumentsOpen() is at most the number of the tables but the       *)
(* built-in one.                                                           *)
(***************************************************************************)
C28_OpenHasTable ==
    /\ \A uri \in Uris : Has(documentStore, uri) => GetSymbolTable(symbolTables, uri) # NoTable
    /\ NumberDocumentsOpen <= NumberDocumentsKnown - 1
====
